---- MODULE Spec2Model ----
(***************************************************************************)
(* Model of spectra's compositing engine (src/src/compositing.rs) and of   *)
(* its timeline resolution (src/src/edit.rs).                              *)
(*                                                                         *)
(* Compositor::display is a recursive tree walk; it is modelled as a stack *)
(* machine whose frames are the pending calls of display, composite and    *)
(* the leaf functions, one action per statement that touches the           *)
(* framebuffer pool or issues a GPU operation.                             *)
(***************************************************************************)
EXTENDS Integers, Sequences, FiniteSets, TLC

\* Largest number of Composite nodes in a displayed tree.
MaxComposites == 2

\* Largest query time of Timeline::play; times are whole ticks.
MaxTime == 2

\* Largest number of Cuts in a Timeline, over all its Tracks.
MaxCuts == 2

\* Largest number of Tracks in a Timeline.
MaxTracks == 2

\* Largest component of the colors blended; RGBA32F holds whole numbers exactly.
MaxLevel == 2

\* The most play calls a caller makes on one Timeline.
MaxQueries == 3

\* A usize local that has not been bound yet.
NoIndex == -1

Range(s) == {s[i] : i \in 1..Len(s)}

Last(s) == s[Len(s)]

Front(s) == SubSeq(s, 1, Len(s) - 1)

Max(a, b) == IF a >= b THEN a ELSE b

IsPrefix(p, s) == Len(p) <= Len(s) /\ SubSeq(s, 1, Len(p)) = p

(***************************************************************************)
(* Node (compositing.rs:35-63) and its constructors.                       *)
(***************************************************************************)
RGBA(r, g, b, a) == <<r, g, b, a>>

NodeRender == [kind |-> "Render", layer |-> "layer"]

\* Texture built with an explicit `None` scale, so that texturize's
\* unwrap_or default is exercised; Option is a sequence of length 0 or 1.
NodeTexture == [kind |-> "Texture", texture |-> "texture", scale |-> <<>>]

NodeColor == [kind |-> "Color", color |-> RGBA(1, 0, 0, 1)]

NodeFullscreenEffect == [kind |-> "FullscreenEffect", program |-> "program"]

compose_with(self, rhs, clear_color, eq, src_fct, dst_fct) ==
  [kind |-> "Composite", left |-> self, right |-> rhs, clear_color |-> clear_color,
   eq |-> eq, src_fct |-> src_fct, dst_fct |-> dst_fct]

NodeAdd(self, rhs) ==
  compose_with(self, rhs, RGBA(0, 0, 0, 0), "Additive", "One", "One")

\* Mutant: `-` blends with the equation of `+`.
NodeSub_Additive(self, rhs) ==
  compose_with(self, rhs, RGBA(0, 0, 0, 0), "Additive", "One", "One")

NodeSub(self, rhs) ==
  compose_with(self, rhs, RGBA(0, 0, 0, 0), "Subtract", "One", "One")

\* Mutant: `*` clears its target to transparent black.
NodeMul_ClearZero(self, rhs) ==
  compose_with(self, rhs, RGBA(0, 0, 0, 0), "Additive", "Zero", "SrcColor")

NodeMul(self, rhs) ==
  compose_with(self, rhs, RGBA(1, 1, 1, 1), "Additive", "Zero", "SrcColor")

\* Mutant: `over` keeps the order of its operands.
NodeOver_Unswapped(self, rhs) ==
  compose_with(self, rhs, RGBA(0, 0, 0, 0), "Additive", "SrcAlpha", "SrcAlphaComplement")

NodeOver(self, rhs) ==
  compose_with(rhs, self, RGBA(0, 0, 0, 0), "Additive", "SrcAlpha", "SrcAlphaComplement")

Leaves == {NodeRender, NodeTexture, NodeColor, NodeFullscreenEffect}

\* The leaves placed under Composite nodes: one that draws through a callback
\* and one that only clears.  Every kind of leaf is displayed on its own.
BlendedLeaves == {NodeRender, NodeColor}

\* All trees with exactly k Composite nodes.
RECURSIVE NodesOfSize(_)
NodesOfSize(k) ==
  IF k = 0 THEN BlendedLeaves
  ELSE UNION {{NodeAdd(l, r) : l \in NodesOfSize(i), r \in NodesOfSize(k - 1 - i)} :
              i \in 0..(k - 1)}

AllNodes == Leaves \cup UNION {NodesOfSize(k) : k \in 0..MaxComposites}

\* The value of `root` before the first display call.
NoNode == [kind |-> "None"]

(***************************************************************************)
(* State.                                                                  *)
(***************************************************************************)
VARIABLES
  framebuffers_len,   \* self.framebuffers.len()
  free_framebuffers,  \* self.free_framebuffers
  stack,              \* pending calls, innermost last
  panicked,           \* an assert! or an index check failed
  log,                \* events of the current (or last) display call
  pool_ops,           \* the last two pool operations, oldest first
  root,               \* the tree of the current (or last) display call
  repeated,           \* the current display shows the same tree as the one before
  start_len,          \* framebuffers_len when the current display began
  start_free,         \* free_framebuffers when the current display began
  call_peak,          \* most targets in use at once during the current display
  peak_ever,          \* most targets in use at once so far
  tracks,             \* Timeline::tracks, each Track the sequence of its cuts
  overlaps,           \* Timeline::overlaps
  play_t,             \* the argument of the last play call (<<>> before the first)
  played,             \* the value the last play call returned
  play_trace,         \* the closure calls the last play call made, in order
  manifest_call,      \* the arguments of the last from_manifest call (<<>> before the first)
  warnings,           \* the clip names the last from_manifest call warned about
  edit_panicked,      \* the assert! of Cut::new failed
  draft,              \* the caller's Track under construction, as the sequence of its cuts
  operator,           \* the operator of the last Node expression built: "+", "-", "*", "over"
  operand_a,          \* its receiver A
  operand_b,          \* its argument B
  composed,           \* the Node it built
  blend_pc,           \* where composite stands in evaluating `composed`
  left_pixel,         \* a pixel of the target treat_node(left) returned (<<>> before)
  right_pixel,        \* a pixel of the target treat_node(right) returned (<<>> before)
  pixel,              \* the same pixel of the target composite pulled (<<>> before its clear)
  pixel_log,          \* the clears and draws of the evaluation, in order
  queries,            \* the play calls a caller made and the outcomes it took, in order
  cache_ids,          \* CacheBlock::ids, a function from the names loaded to their ids
  cache_data,         \* CacheBlock::data, each slot its resource and its path
  cache_senders,      \* the paths the watcher thread holds a sender for
  got                 \* the last get_id call and what it returned (<<>> before the first)

compositor_vars == <<framebuffers_len, free_framebuffers, stack, panicked, log,
                     pool_ops, root, repeated, start_len, start_free, call_peak,
                     peak_ever>>

timeline_vars == <<tracks, overlaps, play_t, played, play_trace>>

edit_vars == <<manifest_call, warnings, edit_panicked, draft>>

blend_vars == <<operator, operand_a, operand_b, composed, blend_pc, left_pixel, right_pixel,
               pixel, pixel_log>>

scrub_vars == <<queries>>

cache_vars == <<cache_ids, cache_data, cache_senders, got>>

\* What the methods of Compositor, of Timeline, the builders of edit.rs, the
\* evaluation of one pixel, the caller's notes and the resource cache leave
\* alone.
beside_compositor == <<timeline_vars, edit_vars, blend_vars, scrub_vars, cache_vars>>

beside_timeline == <<compositor_vars, edit_vars, blend_vars, scrub_vars, cache_vars>>

beside_edit == <<compositor_vars, blend_vars, scrub_vars, cache_vars>>

beside_blend == <<compositor_vars, timeline_vars, edit_vars, scrub_vars, cache_vars>>

beside_scrub == <<compositor_vars, edit_vars, blend_vars, cache_vars>>

beside_cache == <<compositor_vars, timeline_vars, edit_vars, blend_vars, scrub_vars>>

vars == <<compositor_vars, timeline_vars, edit_vars, blend_vars, scrub_vars, cache_vars>>

(***************************************************************************)
(* The framebuffer pool.                                                   *)
(***************************************************************************)
\* Mutant: the oldest free index is taken instead of the newest.
PullFramebuffer_Fifo(len, free) ==
  IF free # <<>>
  THEN [index |-> Head(free), len |-> len, free |-> Tail(free)]
  ELSE [index |-> len, len |-> len + 1, free |-> free]

\* Mutant: the free list is read but not popped.
PullFramebuffer_Peek(len, free) ==
  IF free # <<>>
  THEN [index |-> Last(free), len |-> len, free |-> free]
  ELSE [index |-> len, len |-> len + 1, free |-> free]

\* Mutant: a target is allocated on every pull.
PullFramebuffer_Grow(len, free) == [index |-> len, len |-> len + 1, free |-> free]

\* Mutant: the index of a new target is read after the push, not before.
PullFramebuffer_LenAfterPush(len, free) ==
  IF free # <<>>
  THEN [index |-> Last(free), len |-> len, free |-> Front(free)]
  ELSE [index |-> len + 1, len |-> len + 1, free |-> free]

\* pull_framebuffer: pop the free list, or else allocate and append.
PullFramebuffer(len, free) ==
  IF free # <<>>
  THEN [index |-> Last(free), len |-> len, free |-> Front(free)]
  ELSE [index |-> len, len |-> len + 1, free |-> free]

\* Mutant: disposing of the last allocated target deallocates it.
DisposeFramebuffer_Shrink(len, free, framebuffer_index) ==
  IF framebuffer_index = len - 1
  THEN [len |-> len - 1, free |-> free]
  ELSE [len |-> len, free |-> Append(free, framebuffer_index)]

\* Mutant: dispose_framebuffer keeps the free list as it is, so that no target
\* is used again.
DisposeFramebuffer_Forget(len, free, framebuffer_index) == [len |-> len, free |-> free]

\* dispose_framebuffer: push on the free list.
DisposeFramebuffer(len, free, framebuffer_index) ==
  [len |-> len, free |-> Append(free, framebuffer_index)]

InUseOf(free, len) == (0..(len - 1)) \ Range(free)

InUse == InUseOf(free_framebuffers, framebuffers_len)

PoolOp(op, index, free_before, len_before, free_after, len_after) ==
  [op |-> op, index |-> index, free_before |-> free_before, len_before |-> len_before,
   free_after |-> free_after, len_after |-> len_after]

Remember(ops, o) == IF Len(ops) < 2 THEN Append(ops, o) ELSE <<ops[2], o>>

Event(ev, path, fb, arg) == [ev |-> ev, path |-> path, fb |-> fb, arg |-> arg]

(***************************************************************************)
(* Frames.                                                                 *)
(***************************************************************************)
\* A pending call: its function, its node argument, where it stands and its
\* locals; `path` (the node's place in the tree, as a sequence of "L" and "R")
\* and `in_use_at_call` (the targets in use when the call was made) are history.
Frame(fn, node, path, pc, in_use) ==
  [fn |-> fn, node |-> node, path |-> path, pc |-> pc,
   left_index |-> NoIndex, right_index |-> NoIndex, fb_index |-> NoIndex,
   in_use_at_call |-> in_use]

\* treat_node: dispatch on the node's kind.
TreatNode(node, path, in_use) ==
  CASE node.kind = "Render" -> Frame("render", node, path, "pull", in_use)
    [] node.kind = "Texture" -> Frame("texturize", node, path, "pull", in_use)
    [] node.kind = "Color" -> Frame("colorize", node, path, "pull", in_use)
    [] node.kind = "Composite" -> Frame("composite", node, path, "treat_left", in_use)
    [] node.kind = "FullscreenEffect" ->
         Frame("fullscreen_effect", node, path, "pull", in_use)

\* Mutant: composite treats its right child first and takes it for the left.
Callee_Swapped(f, in_use) ==
  CASE f.pc = "treat_node" -> TreatNode(f.node, f.path, in_use)
    [] f.pc = "treat_left" -> TreatNode(f.node.right, Append(f.path, "R"), in_use)
    [] f.pc = "treat_right" -> TreatNode(f.node.left, Append(f.path, "L"), in_use)

\* The treat_node call a frame is about to make: display treats its root,
\* composite its left child and then its right child.
Callee(f, in_use) ==
  CASE f.pc = "treat_node" -> TreatNode(f.node, f.path, in_use)
    [] f.pc = "treat_left" -> TreatNode(f.node.left, Append(f.path, "L"), in_use)
    [] f.pc = "treat_right" -> TreatNode(f.node.right, Append(f.path, "R"), in_use)

\* The caller once the callee has returned `ret`: the binding of the `let`.
Bind(caller, ret) ==
  CASE caller.pc = "treat_node" -> [caller EXCEPT !.fb_index = ret, !.pc = "blit"]
    [] caller.pc = "treat_left" -> [caller EXCEPT !.left_index = ret, !.pc = "treat_right"]
    [] caller.pc = "treat_right" -> [caller EXCEPT !.right_index = ret, !.pc = "pull"]

Top == stack[Len(stack)]

Running == stack # <<>> /\ ~panicked

SetTop(f) == [stack EXCEPT ![Len(stack)] = f]

LeafFns == {"render", "texturize", "colorize", "fullscreen_effect"}

\* The pull of the top frame, shared by the leaf functions and composite.
DoPull(next_pc) ==
  LET p == PullFramebuffer(framebuffers_len, free_framebuffers)
      live == Cardinality(InUseOf(p.free, p.len))
  IN /\ free_framebuffers' = p.free
     /\ framebuffers_len' = p.len
     /\ stack' = SetTop([Top EXCEPT !.fb_index = p.index, !.pc = next_pc])
     /\ log' = Append(log, Event("pull", Top.path, p.index, <<>>))
     /\ pool_ops' = Remember(pool_ops,
                       PoolOp("pull", p.index, free_framebuffers, framebuffers_len,
                              p.free, p.len))
     /\ call_peak' = Max(call_peak, live)
     /\ peak_ever' = Max(peak_ever, live)

DoDispose(index) ==
  LET p == DisposeFramebuffer(framebuffers_len, free_framebuffers, index)
  IN /\ free_framebuffers' = p.free
     /\ framebuffers_len' = p.len
     /\ log' = Append(log, Event("dispose", Top.path, index, <<>>))
     /\ pool_ops' = Remember(pool_ops,
                       PoolOp("dispose", index, free_framebuffers, framebuffers_len,
                              p.free, p.len))

\* `&self.framebuffers[i]` panics when i is out of bounds.
Indexable(i) == 0 <= i /\ i < framebuffers_len

(***************************************************************************)
(* Compositor::display                                                     *)
(***************************************************************************)
Display(node) ==
  /\ UNCHANGED beside_compositor
  /\ stack = <<>>
  /\ ~panicked
  /\ stack' = <<Frame("display", node, <<>>, "treat_node", InUse)>>
  /\ log' = <<>>
  /\ root' = node
  /\ repeated' = (node = root)
  /\ start_len' = framebuffers_len
  /\ start_free' = free_framebuffers
  /\ call_peak' = Cardinality(InUse)
  /\ UNCHANGED <<framebuffers_len, free_framebuffers, panicked, pool_ops, peak_ever>>

\* A call of treat_node from display or composite: push the callee's frame.
CallTreatNode ==
  /\ UNCHANGED beside_compositor
  /\ Running
  /\ Top.pc \in {"treat_node", "treat_left", "treat_right"}
  /\ stack' = Append(stack, Callee(Top, InUse))
  /\ UNCHANGED <<framebuffers_len, free_framebuffers, panicked, log, pool_ops, root,
                 repeated, start_len, start_free, call_peak, peak_ever>>

\* `let fb_index = self.pull_framebuffer();` of a leaf function.
LeafPull ==
  /\ UNCHANGED beside_compositor
  /\ Running
  /\ Top.fn \in LeafFns
  /\ Top.pc = "pull"
  /\ DoPull("draw")
  /\ UNCHANGED <<panicked, root, repeated, start_len, start_free>>

\* Mutant: colorize draws a full-screen quad after its clear, as texturize does.
LeafEvents_ColorDraws(f) ==
  CASE f.fn = "render" ->
         <<Event("callback", f.path, f.fb_index, f.node.layer)>>
    [] f.fn = "colorize" ->
         <<Event("clear", f.path, f.fb_index, f.node.color),
           Event("draw", f.path, f.fb_index,
                 [program |-> "compose_program", source |-> <<>>, unit |-> 0,
                  scale |-> <<>>, blend |-> <<>>])>>
    [] OTHER ->
         <<Event("clear", f.path, f.fb_index, RGBA(0, 0, 0, 1)),
           Event("draw", f.path, f.fb_index,
                 [program |-> "texture_program", source |-> <<>>, unit |-> 0,
                  scale |-> <<>>, blend |-> <<>>])>>

\* What render, texturize, colorize and fullscreen_effect do with the target
\* they pulled.
LeafEvents(f) ==
  CASE f.fn = "render" ->
         <<Event("callback", f.path, f.fb_index, f.node.layer)>>
    [] f.fn = "texturize" ->
         <<Event("clear", f.path, f.fb_index, RGBA(0, 0, 0, 1)),
           Event("draw", f.path, f.fb_index,
                 [program |-> "texture_program", source |-> f.node.texture, unit |-> 0,
                  scale |-> IF f.node.scale = <<>> THEN <<1, 1>> ELSE f.node.scale[1],
                  blend |-> <<>>])>>
    [] f.fn = "colorize" ->
         <<Event("clear", f.path, f.fb_index, f.node.color)>>
    [] f.fn = "fullscreen_effect" ->
         <<Event("clear", f.path, f.fb_index, RGBA(0, 0, 0, 1)),
           Event("draw", f.path, f.fb_index,
                 [program |-> f.node.program, source |-> <<>>, unit |-> 0,
                  scale |-> <<>>, blend |-> <<>>])>>

\* The body of render, texturize, colorize or fullscreen_effect after the pull.
LeafDraw ==
  /\ UNCHANGED beside_compositor
  /\ Running
  /\ Top.fn \in LeafFns
  /\ Top.pc = "draw"
  /\ IF Indexable(Top.fb_index)
     THEN /\ log' = log \o LeafEvents(Top)
          /\ stack' = SetTop([Top EXCEPT !.pc = "return"])
          /\ UNCHANGED panicked
     ELSE /\ panicked' = TRUE
          /\ UNCHANGED <<log, stack>>
  /\ UNCHANGED <<framebuffers_len, free_framebuffers, pool_ops, root, repeated,
                 start_len, start_free, call_peak, peak_ever>>

\* A callee returns its fb_index; the caller binds it and goes on.
Return ==
  /\ UNCHANGED beside_compositor
  /\ Running
  /\ Top.pc = "return"
  /\ Len(stack) >= 2
  /\ stack' = Append(SubSeq(stack, 1, Len(stack) - 2),
                     Bind(stack[Len(stack) - 1], Top.fb_index))
  /\ UNCHANGED <<framebuffers_len, free_framebuffers, panicked, log, pool_ops, root,
                 repeated, start_len, start_free, call_peak, peak_ever>>

(***************************************************************************)
(* Compositor::composite, after both children have been treated.           *)
(***************************************************************************)
\* The two assert!s, then `let fb_index = self.pull_framebuffer();`.
CompositePull ==
  /\ UNCHANGED beside_compositor
  /\ Running
  /\ Top.fn = "composite"
  /\ Top.pc = "pull"
  /\ IF Top.left_index < framebuffers_len /\ Top.right_index < framebuffers_len
     THEN /\ DoPull("draw_left")
          /\ UNCHANGED panicked
     ELSE /\ panicked' = TRUE
          /\ UNCHANGED <<framebuffers_len, free_framebuffers, stack, log, pool_ops,
                         call_peak, peak_ever>>
  /\ UNCHANGED <<root, repeated, start_len, start_free>>

BlendOf(node) == <<node.eq, node.src_fct, node.dst_fct>>

\* Pipeline::new(fb, clear_color, texture_set) and the first tess_gate.render.
CompositeDrawLeft ==
  /\ UNCHANGED beside_compositor
  /\ Running
  /\ Top.fn = "composite"
  /\ Top.pc = "draw_left"
  /\ IF Indexable(Top.fb_index) /\ Indexable(Top.left_index) /\ Indexable(Top.right_index)
     THEN /\ log' = log \o
                <<Event("clear", Top.path, Top.fb_index, Top.node.clear_color),
                  Event("draw", Top.path, Top.fb_index,
                        [program |-> "compose_program", source |-> Top.left_index,
                         unit |-> 0, scale |-> <<>>, blend |-> BlendOf(Top.node)])>>
          /\ stack' = SetTop([Top EXCEPT !.pc = "draw_right"])
          /\ UNCHANGED panicked
     ELSE /\ panicked' = TRUE
          /\ UNCHANGED <<log, stack>>
  /\ UNCHANGED <<framebuffers_len, free_framebuffers, pool_ops, root, repeated,
                 start_len, start_free, call_peak, peak_ever>>

\* The second tess_gate.render, sampling texture unit 1.
CompositeDrawRight ==
  /\ UNCHANGED beside_compositor
  /\ Running
  /\ Top.fn = "composite"
  /\ Top.pc = "draw_right"
  /\ log' = Append(log,
               Event("draw", Top.path, Top.fb_index,
                     [program |-> "compose_program", source |-> Top.right_index,
                      unit |-> 1, scale |-> <<>>, blend |-> BlendOf(Top.node)]))
  /\ stack' = SetTop([Top EXCEPT !.pc = "dispose_left"])
  /\ UNCHANGED <<framebuffers_len, free_framebuffers, panicked, pool_ops, root,
                 repeated, start_len, start_free, call_peak, peak_ever>>

\* Mutant: composite forgets to dispose of its left child's target.
CompositeDisposeLeft_Skip ==
  /\ Running
  /\ Top.fn = "composite"
  /\ Top.pc = "dispose_left"
  /\ stack' = SetTop([Top EXCEPT !.pc = "dispose_right"])
  /\ UNCHANGED <<framebuffers_len, free_framebuffers, log, pool_ops, panicked, root,
                 repeated, start_len, start_free, call_peak, peak_ever, beside_compositor>>

\* self.dispose_framebuffer(left_index);
CompositeDisposeLeft ==
  /\ UNCHANGED beside_compositor
  /\ Running
  /\ Top.fn = "composite"
  /\ Top.pc = "dispose_left"
  /\ DoDispose(Top.left_index)
  /\ stack' = SetTop([Top EXCEPT !.pc = "dispose_right"])
  /\ UNCHANGED <<panicked, root, repeated, start_len, start_free,
                 call_peak, peak_ever>>

\* Mutant: composite disposes of its left child's target a second time.
CompositeDisposeRight_Left ==
  /\ Running
  /\ Top.fn = "composite"
  /\ Top.pc = "dispose_right"
  /\ DoDispose(Top.left_index)
  /\ stack' = SetTop([Top EXCEPT !.pc = "return"])
  /\ UNCHANGED <<panicked, root, repeated, start_len, start_free, call_peak, peak_ever,
                 beside_compositor>>

\* self.dispose_framebuffer(right_index);
CompositeDisposeRight ==
  /\ UNCHANGED beside_compositor
  /\ Running
  /\ Top.fn = "composite"
  /\ Top.pc = "dispose_right"
  /\ DoDispose(Top.right_index)
  /\ stack' = SetTop([Top EXCEPT !.pc = "return"])
  /\ UNCHANGED <<panicked, root, repeated, start_len, start_free,
                 call_peak, peak_ever>>

\* Mutant: the blit to the screen runs under an additive blend state.
DisplayBlit_Blended ==
  /\ UNCHANGED beside_compositor
  /\ Running
  /\ Top.fn = "display"
  /\ Top.pc = "blit"
  /\ IF Indexable(Top.fb_index)
     THEN /\ log' = log \o
                <<Event("clear", Top.path, "screen", RGBA(0, 0, 0, 1)),
                  Event("blit", Top.path, "screen",
                        [program |-> "compose_program", source |-> Top.fb_index,
                         unit |-> 0, scale |-> <<>>, blend |-> <<"Additive", "One", "One">>])>>
          /\ stack' = SetTop([Top EXCEPT !.pc = "dispose"])
          /\ UNCHANGED panicked
     ELSE /\ panicked' = TRUE
          /\ UNCHANGED <<log, stack>>
  /\ UNCHANGED <<framebuffers_len, free_framebuffers, pool_ops, root, repeated,
                 start_len, start_free, call_peak, peak_ever>>

(***************************************************************************)
(* Compositor::display, after the tree has been treated.                   *)
(***************************************************************************)
\* The pipeline onto the default framebuffer: no blending, texture unit 0.
DisplayBlit ==
  /\ UNCHANGED beside_compositor
  /\ Running
  /\ Top.fn = "display"
  /\ Top.pc = "blit"
  /\ IF Indexable(Top.fb_index)
     THEN /\ log' = log \o
                <<Event("clear", Top.path, "screen", RGBA(0, 0, 0, 1)),
                  Event("blit", Top.path, "screen",
                        [program |-> "compose_program", source |-> Top.fb_index,
                         unit |-> 0, scale |-> <<>>, blend |-> <<>>])>>
          /\ stack' = SetTop([Top EXCEPT !.pc = "dispose"])
          /\ UNCHANGED panicked
     ELSE /\ panicked' = TRUE
          /\ UNCHANGED <<log, stack>>
  /\ UNCHANGED <<framebuffers_len, free_framebuffers, pool_ops, root, repeated,
                 start_len, start_free, call_peak, peak_ever>>

\* Mutant: display returns without disposing of the root's target.
DisplayDispose_Leak ==
  /\ Running
  /\ Top.fn = "display"
  /\ Top.pc = "dispose"
  /\ stack' = <<>>
  /\ UNCHANGED <<framebuffers_len, free_framebuffers, log, pool_ops, panicked, root,
                 repeated, start_len, start_free, call_peak, peak_ever, beside_compositor>>

\* self.dispose_framebuffer(fb_index); and display returns.
DisplayDispose ==
  /\ UNCHANGED beside_compositor
  /\ Running
  /\ Top.fn = "display"
  /\ Top.pc = "dispose"
  /\ DoDispose(Top.fb_index)
  /\ stack' = <<>>
  /\ UNCHANGED <<panicked, root, repeated, start_len, start_free,
                 call_peak, peak_ever>>

(***************************************************************************)
(* Specification of the compositor.                                        *)
(***************************************************************************)
\* Compositor::new: no framebuffer allocated, nothing free.
CompositorNew ==
  /\ framebuffers_len = 0
  /\ free_framebuffers = <<>>
  /\ stack = <<>>
  /\ panicked = FALSE
  /\ log = <<>>
  /\ pool_ops = <<>>
  /\ root = NoNode
  /\ repeated = FALSE
  /\ start_len = 0
  /\ start_free = <<>>
  /\ call_peak = 0
  /\ peak_ever = 0

CompositorNext ==
  \/ \E node \in AllNodes : Display(node)
  \/ CallTreatNode
  \/ LeafPull
  \/ LeafDraw
  \/ Return
  \/ CompositePull
  \/ CompositeDrawLeft
  \/ CompositeDrawRight
  \/ CompositeDisposeLeft
  \/ CompositeDisposeRight
  \/ DisplayBlit
  \/ DisplayDispose

(***************************************************************************)
(* Timeline resolution (edit.rs).  Time is f64 in the source; the model    *)
(* uses whole ticks, on which the comparisons and the one subtraction and  *)
(* addition of play are exact.                                             *)
(***************************************************************************)
Times == 0..MaxTime

\* The clips of the caller, by name.
Clips == {"a", "b"}

\* (clip.gen_node)(t): the generators are the caller's closures; these two
\* yield a different Node for every clip and every time.
GenNode(clip, t) ==
  CASE clip = "a" -> [kind |-> "Color", color |-> RGBA(t, 0, 0, 1)]
    [] clip = "b" -> [kind |-> "Color", color |-> RGBA(0, t, 1, 1)]

\* Cut::new; its assertion in_time <= out_time is the guard of the callers.
CutNew(in_time, out_time, inst_time, clip) ==
  [in_time |-> in_time, out_time |-> out_time, inst_time |-> inst_time, clip |-> clip]

\* Mutant: the duration of a cut is its out_time.
CutDur_OutTime(cut) == cut.out_time

\* Cut::dur
CutDur(cut) == cut.out_time - cut.in_time

\* The (in_time, out_time) slices and the instance times of the cuts built.
CutSlices == {<<0, 0>>, <<1, 2>>}

InstTimes == {0, 1}

Cuts == {CutNew(s[1], s[2], i, c) : s \in CutSlices, i \in InstTimes, c \in Clips}

\* Track::from(cuts), or Track::new followed by add_cut for each cut.
TracksOfLen(n) == [1..n -> Cuts]

\* The folds of the caller, by name: each Overlap owns its own closure.
Folds == {"sum", "stack"}

RECURSIVE FoldLeft(_, _, _)
FoldLeft(fold, acc, nodes) ==
  IF nodes = <<>> THEN acc
  ELSE FoldLeft(fold,
                IF fold = "sum" THEN NodeAdd(acc, Head(nodes))
                ELSE NodeOver(Head(nodes), acc),
                Tail(nodes))

\* (overlap.fold)(nodes): play calls it on two nodes or more.
ApplyFold(fold, nodes) == FoldLeft(fold, Head(nodes), Tail(nodes))

\* Overlap::new
OverlapNew(inst_time, dur, fold) == [inst_time |-> inst_time, dur |-> dur, fold |-> fold]

OverlapDurs == {1}

CountCuts(ts) ==
  LET RECURSIVE Sum(_)
      Sum(i) == IF i = 0 THEN 0 ELSE Len(ts[i]) + Sum(i - 1)
  IN Sum(Len(ts))

\* Timeline::add_track
AddTrack(track) ==
  /\ Len(tracks) < MaxTracks
  /\ CountCuts(tracks) + Len(track) <= MaxCuts
  /\ tracks' = Append(tracks, track)
  /\ play_t' = <<>>
  /\ played' = [tag |-> "NotPlayed"]
  /\ play_trace' = <<>>
  /\ UNCHANGED <<overlaps, beside_timeline>>

\* Timeline::add_overlap
AddOverlap(overlap) ==
  /\ \A i \in 1..Len(overlaps) : overlaps[i].fold # overlap.fold
  /\ overlaps' = Append(overlaps, overlap)
  /\ play_t' = <<>>
  /\ played' = [tag |-> "NotPlayed"]
  /\ play_trace' = <<>>
  /\ UNCHANGED <<tracks, beside_timeline>>

\* Mutant: the window of a cut is open at its end.
CutActive_HalfOpen(cut, t) == cut.inst_time <= t /\ t < cut.inst_time + CutDur(cut)

\* Mutant: the window of a cut is open at its start.
CutActive_OpenStart(cut, t) == cut.inst_time < t /\ t <= cut.inst_time + CutDur(cut)

\* The test of play's inner loop.
CutActive(cut, t) == cut.inst_time <= t /\ t <= cut.inst_time + CutDur(cut)

\* Mutant: the window of an overlap is open at its end.
OverlapActive_HalfOpen(x, t) == x.inst_time <= t /\ t < x.inst_time + x.dur

\* The test of find_overlap's closure.
OverlapActive(x, t) == x.inst_time <= t /\ t <= x.inst_time + x.dur

\* play's two loops: the calls of gen_node, in order, as <<track, cut>> places.
RECURSIVE ScanCuts(_, _, _, _, _)
ScanCuts(ts, t, i, j, acc) ==
  IF i > Len(ts) THEN acc
  ELSE IF j > Len(ts[i]) THEN ScanCuts(ts, t, i + 1, 1, acc)
  ELSE ScanCuts(ts, t, i, j + 1,
                IF CutActive(ts[i][j], t) THEN Append(acc, <<i, j>>) ELSE acc)

ActivePlaces(ts, t) == ScanCuts(ts, t, 1, 1, <<>>)

\* Mutant: the generator is given the time within the clip, not the query time.
ActiveNodes_Remapped(ts, t) ==
  LET places == ActivePlaces(ts, t)
  IN [k \in 1..Len(places) |->
        LET cut == ts[places[k][1]][places[k][2]]
        IN GenNode(cut.clip, cut.in_time + (t - cut.inst_time))]

\* active_nodes after the loops.
ActiveNodes(ts, t) ==
  LET places == ActivePlaces(ts, t)
  IN [k \in 1..Len(places) |-> GenNode(ts[places[k][1]][places[k][2]].clip, t)]

\* Mutant: the search runs from the last declared overlap to the first.
RECURSIVE FindFrom_Last(_, _, _)
FindFrom_Last(os, t, i) ==
  IF i > Len(os) THEN 0
  ELSE IF FindFrom_Last(os, t, i + 1) # 0 THEN FindFrom_Last(os, t, i + 1)
  ELSE IF (os[i].inst_time <= t /\ t <= os[i].inst_time + os[i].dur) THEN i
  ELSE 0

\* find_overlap: the index of the first overlap whose window holds t, 0 for None.
RECURSIVE FindFrom(_, _, _)
FindFrom(os, t, i) ==
  IF i > Len(os) THEN 0
  ELSE IF OverlapActive(os[i], t) THEN i
  ELSE FindFrom(os, t, i + 1)

FindOverlap(os, t) == FindFrom(os, t, 1)

Resolved(node) == [tag |-> "Resolved", node |-> node]

NoOverlap == [tag |-> "NoOverlap"]

Inactive == [tag |-> "Inactive"]

\* The match on active_nodes.len().
PlayResult(ts, os, t) ==
  LET active_nodes == ActiveNodes(ts, t)
  IN CASE Len(active_nodes) = 0 -> Inactive
       [] Len(active_nodes) = 1 -> Resolved(active_nodes[Len(active_nodes)])
       [] OTHER ->
            LET k == FindOverlap(os, t)
            IN IF k # 0 THEN Resolved(ApplyFold(os[k].fold, active_nodes))
               ELSE NoOverlap

\* Mutant: play looks for an overlap as soon as one cut is active.
PlayTrace_SeekFromOne(ts, os, t) ==
  LET places == ActivePlaces(ts, t)
      gens == [k \in 1..Len(places) |->
                 [call |-> "gen_node", track |-> places[k][1], cut |-> places[k][2], arg |-> t]]
      k == FindOverlap(os, t)
  IN IF Len(places) >= 1
     THEN gens \o <<[call |-> "find_overlap", track |-> 0, cut |-> 0, arg |-> t]>>
          \o (IF k # 0
              THEN <<[call |-> "fold", track |-> 0, cut |-> k, arg |-> ActiveNodes(ts, t)]>>
              ELSE <<>>)
     ELSE gens

\* Mutant: play looks for an overlap first and generates the nodes only when
\* it has one to fold them with.
PlayTrace_GenAfterSeek(ts, os, t) ==
  LET places == ActivePlaces(ts, t)
      gens == [k \in 1..Len(places) |->
                 [call |-> "gen_node", track |-> places[k][1], cut |-> places[k][2], arg |-> t]]
      k == FindOverlap(os, t)
  IN IF Len(places) >= 2
     THEN <<[call |-> "find_overlap", track |-> 0, cut |-> 0, arg |-> t]>>
          \o (IF k # 0
              THEN gens \o
                   <<[call |-> "fold", track |-> 0, cut |-> k, arg |-> ActiveNodes(ts, t)]>>
              ELSE <<>>)
     ELSE gens

\* The closures play calls, in the order it calls them.
PlayTrace(ts, os, t) ==
  LET places == ActivePlaces(ts, t)
      gens == [k \in 1..Len(places) |->
                 [call |-> "gen_node", track |-> places[k][1], cut |-> places[k][2], arg |-> t]]
      k == FindOverlap(os, t)
  IN IF Len(places) >= 2
     THEN gens \o <<[call |-> "find_overlap", track |-> 0, cut |-> 0, arg |-> t]>>
          \o (IF k # 0
              THEN <<[call |-> "fold", track |-> 0, cut |-> k, arg |-> ActiveNodes(ts, t)]>>
              ELSE <<>>)
     ELSE gens

\* Mutant: play moves the fold out of the Overlap it applies and drops the
\* Overlap.
Play_Draining(t) ==
  LET k == FindOverlap(overlaps, t)
      applied == Len(ActivePlaces(tracks, t)) >= 2 /\ k # 0
  IN /\ play_t' = <<t>>
     /\ played' = PlayResult(tracks, overlaps, t)
     /\ play_trace' = PlayTrace(tracks, overlaps, t)
     /\ overlaps' = IF applied
                    THEN [i \in 1..(Len(overlaps) - 1) |->
                            IF i < k THEN overlaps[i] ELSE overlaps[i + 1]]
                    ELSE overlaps
     /\ UNCHANGED <<tracks, beside_timeline>>

\* Timeline::play
Play(t) ==
  /\ play_t' = <<t>>
  /\ played' = PlayResult(tracks, overlaps, t)
  /\ play_trace' = PlayTrace(tracks, overlaps, t)
  /\ UNCHANGED <<tracks, overlaps, beside_timeline>>

\* Timeline::new
TimelineNew ==
  /\ tracks = <<>>
  /\ overlaps = <<>>
  /\ play_t = <<>>
  /\ played = [tag |-> "NotPlayed"]
  /\ play_trace = <<>>

TimelineNext ==
  \/ \E n \in 0..(MaxCuts - CountCuts(tracks)) : \E track \in TracksOfLen(n) : AddTrack(track)
  \/ \E i \in InstTimes, d \in OverlapDurs, f \in Folds : AddOverlap(OverlapNew(i, d, f))
  \/ \E t \in Times : Play(t)

(***************************************************************************)
(* A Timeline of one Cut, with times in tenths of a time unit: the cut      *)
(* (in = 0, out = 2, inst = 5) is CutNew(0, 20, 50, _) and the query times   *)
(* 4.9, 5.0, 7.0, 7.1 are 49, 50, 70, 71.                                   *)
(***************************************************************************)
\* Slices of equal and of different length, starting at 0 and later, two of
\* them empty.
WindowSlices == {<<0, 20>>, <<10, 30>>, <<0, 0>>, <<7, 7>>}

WindowInsts == {50, 51}

WindowCuts == {CutNew(s[1], s[2], i, c) : s \in WindowSlices, i \in WindowInsts, c \in Clips}

\* The query times around both ends of the windows.
WindowTimes == {48, 49, 50, 51, 52, 69, 70, 71, 72}

\* timeline.add_track(Track::from(&[cut])) on a new Timeline.
WindowAddTrack(cut) ==
  /\ tracks = <<>>
  /\ AddTrack(<<cut>>)

WindowNext ==
  \/ \E cut \in WindowCuts : WindowAddTrack(cut)
  \/ \E t \in WindowTimes : Play(t)

(***************************************************************************)
(* Building tracks and loading manifests (edit.rs).                        *)
(***************************************************************************)
EditNew ==
  /\ manifest_call = <<>>
  /\ warnings = <<>>
  /\ edit_panicked = FALSE
  /\ draft = <<>>

\* Mutant: Cut::new without its assertion.
CutNewAsserts_Skipped(in_time, out_time) == TRUE

\* The assert! of Cut::new.
CutNewAsserts(in_time, out_time) == in_time <= out_time

\* The (in_time, out_time) pairs callers and manifests give Cut::new, in
\* order and out of order.
BuildSlices == {<<0, 0>>, <<0, 1>>, <<1, 0>>}

\* The arguments of the Cut::new calls of a caller that builds its tracks
\* itself.
BuildArgs ==
  {[in_time |-> s[1], out_time |-> s[2], inst_time |-> 0, clip |-> "a"] : s \in BuildSlices}

\* Cut::new(..) for each element of args, in order: the cuts built, and
\* whether an assertion failed on the way.
RECURSIVE CutsFrom(_, _, _)
CutsFrom(args, i, cuts) ==
  IF i > Len(args) THEN [cuts |-> cuts, panicked |-> FALSE]
  ELSE IF CutNewAsserts(args[i].in_time, args[i].out_time)
  THEN CutsFrom(args, i + 1,
                Append(cuts, CutNew(args[i].in_time, args[i].out_time,
                                    args[i].inst_time, args[i].clip)))
  ELSE [cuts |-> cuts, panicked |-> TRUE]

\* Track::new
TrackNew ==
  /\ ~edit_panicked
  /\ draft' = <<>>
  /\ UNCHANGED <<manifest_call, warnings, edit_panicked, timeline_vars, beside_edit>>

\* track.add_cut(Cut::new(..))
TrackAddCut(a) ==
  /\ ~edit_panicked
  /\ Len(draft) < MaxCuts
  /\ IF CutNewAsserts(a.in_time, a.out_time)
     THEN /\ draft' = Append(draft, CutNew(a.in_time, a.out_time, a.inst_time, a.clip))
          /\ UNCHANGED edit_panicked
     ELSE /\ edit_panicked' = TRUE
          /\ UNCHANGED draft
  /\ UNCHANGED <<manifest_call, warnings, timeline_vars, beside_edit>>

\* Track::from(&[Cut::new(..), ..])
TrackFrom(args) ==
  /\ ~edit_panicked
  /\ LET built == CutsFrom(args, 1, <<>>)
     IN /\ edit_panicked' = built.panicked
        /\ draft' = IF built.panicked THEN draft ELSE built.cuts
  /\ UNCHANGED <<manifest_call, warnings, timeline_vars, beside_edit>>

\* timeline.add_track(track.clone())
BuildAddTrack ==
  /\ ~edit_panicked
  /\ AddTrack(draft)

\* The clip names of manifests; the caller has no clip named "missing".
ClipNames == {"a", "b", "missing"}

ManifestSlices == {<<0, 1>>, <<1, 0>>}

\* CutManifest
CutManifest(in_time, out_time, inst_time, clip) ==
  [in_time |-> in_time, out_time |-> out_time, inst_time |-> inst_time, clip |-> clip]

CutManifests == {CutManifest(s[1], s[2], 0, n) : s \in ManifestSlices, n \in ClipNames}

\* The TimelineManifests of exactly k tracks and at most n cuts: a sequence
\* of TrackManifests, each the sequence of its CutManifests.
RECURSIVE ManifestsOf(_, _)
ManifestsOf(k, n) ==
  IF k = 0 THEN {<<>>}
  ELSE UNION {{Append(m, tr) : m \in ManifestsOf(k - 1, n - j), tr \in [1..j -> CutManifests]} :
              j \in 0..n}

Manifests == UNION {ManifestsOf(k, MaxCuts) : k \in 0..MaxTracks}

\* The caller's HashMap from names to clips: any part of the identity on
\* the clips, or their exchange.
Mappings ==
  {[n \in D |-> n] : D \in SUBSET Clips}
  \cup {[n \in Clips |-> IF n = "a" THEN "b" ELSE "a"]}

\* Mutant: a name without a clip is given the clip "a".
MappingGet_Default(mapping, name) ==
  IF name \in DOMAIN mapping THEN <<mapping[name]>> ELSE <<"a">>

\* mapping.get(&cut_manifest.clip).cloned(): an Option, as a sequence of
\* length 0 or 1.
MappingGet(mapping, name) ==
  IF name \in DOMAIN mapping THEN <<mapping[name]>> ELSE <<>>

\* from_manifest's inner loop from the j-th cut of a track manifest on.
RECURSIVE LoadCuts(_, _, _, _)
LoadCuts(cut_manifests, mapping, j, acc) ==
  IF j > Len(cut_manifests) THEN acc
  ELSE LET cut_manifest == cut_manifests[j]
           found == MappingGet(mapping, cut_manifest.clip)
       IN IF found # <<>>
          THEN IF CutNewAsserts(cut_manifest.in_time, cut_manifest.out_time)
               THEN LoadCuts(cut_manifests, mapping, j + 1,
                             [acc EXCEPT !.track =
                                Append(@, CutNew(cut_manifest.in_time, cut_manifest.out_time,
                                                 cut_manifest.inst_time, found[1]))])
               ELSE [acc EXCEPT !.panicked = TRUE]
          ELSE LoadCuts(cut_manifests, mapping, j + 1,
                        [acc EXCEPT !.warnings = Append(@, cut_manifest.clip)])

\* from_manifest's outer loop from the i-th track manifest on.
RECURSIVE LoadTracks(_, _, _, _)
LoadTracks(manifest, mapping, i, acc) ==
  IF i > Len(manifest) THEN acc
  ELSE LET loaded == LoadCuts(manifest[i], mapping, 1,
                              [track |-> <<>>, warnings |-> acc.warnings, panicked |-> FALSE])
       IN IF loaded.panicked
          THEN [acc EXCEPT !.warnings = loaded.warnings, !.panicked = TRUE]
          ELSE LoadTracks(manifest, mapping, i + 1,
                          [tracks |-> Append(acc.tracks, loaded.track),
                           warnings |-> loaded.warnings, panicked |-> FALSE])

\* Mutant: from_manifest declares an Overlap over the whole show that sums
\* the active nodes.
FromManifest_DefaultOverlap(manifest, mapping) ==
  /\ ~edit_panicked
  /\ LET timeline == LoadTracks(manifest, mapping, 1,
                                [tracks |-> <<>>, warnings |-> <<>>, panicked |-> FALSE])
     IN /\ manifest_call' = <<[manifest |-> manifest, mapping |-> mapping]>>
        /\ warnings' = timeline.warnings
        /\ edit_panicked' = timeline.panicked
        /\ IF timeline.panicked
           THEN UNCHANGED timeline_vars
           ELSE /\ tracks' = timeline.tracks
                /\ overlaps' = <<OverlapNew(0, MaxTime, "sum")>>
                /\ play_t' = <<>>
                /\ played' = [tag |-> "NotPlayed"]
                /\ play_trace' = <<>>
  /\ UNCHANGED <<draft, beside_edit>>

\* Timeline::from_manifest: the Timeline it returns replaces the caller's,
\* unless Cut::new panics on the way.
FromManifest(manifest, mapping) ==
  /\ ~edit_panicked
  /\ LET timeline == LoadTracks(manifest, mapping, 1,
                                [tracks |-> <<>>, warnings |-> <<>>, panicked |-> FALSE])
     IN /\ manifest_call' = <<[manifest |-> manifest, mapping |-> mapping]>>
        /\ warnings' = timeline.warnings
        /\ edit_panicked' = timeline.panicked
        /\ IF timeline.panicked
           THEN UNCHANGED timeline_vars
           ELSE /\ tracks' = timeline.tracks
                /\ overlaps' = <<>>
                /\ play_t' = <<>>
                /\ played' = [tag |-> "NotPlayed"]
                /\ play_trace' = <<>>
  /\ UNCHANGED <<draft, beside_edit>>

\* The program loads its one manifest when it starts.
ManifestLoad(manifest, mapping) ==
  /\ manifest_call = <<>>
  /\ FromManifest(manifest, mapping)

ManifestNext == \E manifest \in Manifests, mapping \in Mappings : ManifestLoad(manifest, mapping)

\* The manifests of a program that plays the Timeline it loaded: two cuts
\* of one track that meet at 1, two tracks with a cut each on [0, 1], a
\* track with a cut whose clip is unknown, a cut that Cut::new rejects, and
\* no track at all.
ShowManifests ==
  {<< <<CutManifest(0, 1, 0, "a"), CutManifest(0, 1, 1, "b")>> >>,
   << <<CutManifest(0, 1, 0, "a")>>, <<CutManifest(0, 1, 0, "b")>> >>,
   << <<CutManifest(0, 1, 0, "a"), CutManifest(0, 1, 0, "missing")>> >>,
   << <<CutManifest(1, 0, 0, "a")>> >>,
   <<>>}

\* timeline.play(t) on the Timeline from_manifest returned.
ShowPlay(t) ==
  /\ manifest_call # <<>>
  /\ ~edit_panicked
  /\ Play(t)

\* timeline.add_overlap(overlap) on the Timeline from_manifest returned.
ShowAddOverlap(overlap) ==
  /\ manifest_call # <<>>
  /\ ~edit_panicked
  /\ AddOverlap(overlap)

ShowNext ==
  \/ \E manifest \in ShowManifests, mapping \in Mappings : ManifestLoad(manifest, mapping)
  \/ \E t \in Times : ShowPlay(t)
  \/ \E i \in InstTimes, d \in OverlapDurs, f \in Folds : ShowAddOverlap(OverlapNew(i, d, f))

\* The manifests of a caller that also builds tracks itself.
BuildManifests ==
  {<< <<CutManifest(0, 1, 0, "a")>> >>,
   << <<CutManifest(0, 1, 0, "missing"), CutManifest(0, 0, 0, "a")>>, <<>> >>,
   << <<CutManifest(1, 0, 0, "missing")>> >>,
   << <<CutManifest(0, 1, 0, "a"), CutManifest(1, 0, 0, "a")>> >>}

BuildNext ==
  \/ TrackNew
  \/ \E a \in BuildArgs : TrackAddCut(a)
  \/ \E n \in 1..MaxCuts : \E args \in [1..n -> BuildArgs] : TrackFrom(args)
  \/ BuildAddTrack
  \/ \E manifest \in BuildManifests : FromManifest(manifest, [n \in Clips |-> n])

(***************************************************************************)
(* One pixel of a Composite of two Color leaves: what composite's draws    *)
(* leave in the target it pulled.  The targets are RGBA32F, which is not   *)
(* clamped; the colors have whole components, on which f32 is exact.       *)
(***************************************************************************)
Levels == 0..MaxLevel

Colors == {RGBA(r, g, 1 - g, a) : r \in Levels, g \in {0, 1}, a \in Levels}

\* Node::Color(color)
ColorNode(color) == [kind |-> "Color", color |-> color]

Operators == {"+", "-", "*", "over"}

\* The Node expression `a op b`, or `a.over(b)`.
Operate(op, a, b) ==
  CASE op = "+" -> NodeAdd(a, b)
    [] op = "-" -> NodeSub(a, b)
    [] op = "*" -> NodeMul(a, b)
    [] op = "over" -> NodeOver(a, b)

\* colorize: the target is cleared to the color and nothing is drawn.
Colorize(color) == color

\* The fragment compose_program emits for a texel of its source.
Forward(texel) == texel

\* The weight a blending Factor gives component c, for the incoming
\* fragment src.
FactorOf(fct, src, c) ==
  CASE fct = "One" -> 1
    [] fct = "Zero" -> 0
    [] fct = "SrcColor" -> src[c]
    [] fct = "SrcAlpha" -> src[4]
    [] fct = "SrcAlphaComplement" -> 1 - src[4]

\* The pixel a draw of fragment src leaves where dst was, under the blending
\* state (eq, src_fct, dst_fct).
Blend(eq, src_fct, dst_fct, src, dst) ==
  [c \in 1..4 |->
     LET s == src[c] * FactorOf(src_fct, src, c)
         d == dst[c] * FactorOf(dst_fct, src, c)
     IN IF eq = "Additive" THEN s + d ELSE s - d]

PixelEvent(ev, unit, source) == [ev |-> ev, unit |-> unit, source |-> source]

BlendNew ==
  /\ operator = "none"
  /\ operand_a = NoNode
  /\ operand_b = NoNode
  /\ composed = NoNode
  /\ blend_pc = "idle"
  /\ left_pixel = <<>>
  /\ right_pixel = <<>>
  /\ pixel = <<>>
  /\ pixel_log = <<>>

\* The caller builds `a op b` and hands it to the compositor: treat_node
\* calls composite.  One frame is followed: a later one starts from the
\* same targets, each cleared before it is drawn to.
ComposeNodes(op, a, b) ==
  /\ blend_pc = "idle"
  /\ operator' = op
  /\ operand_a' = a
  /\ operand_b' = b
  /\ composed' = Operate(op, a, b)
  /\ blend_pc' = "treat_left"
  /\ left_pixel' = <<>>
  /\ right_pixel' = <<>>
  /\ pixel' = <<>>
  /\ pixel_log' = <<>>
  /\ UNCHANGED beside_blend

\* composite: let left_index = self.treat_node(left)
BlendTreatLeft ==
  /\ blend_pc = "treat_left"
  /\ left_pixel' = Colorize(composed.left.color)
  /\ pixel_log' = Append(pixel_log, PixelEvent("colorize", "left", composed.left.color))
  /\ blend_pc' = "treat_right"
  /\ UNCHANGED <<operator, operand_a, operand_b, composed, right_pixel, pixel, beside_blend>>

\* composite: let right_index = self.treat_node(right)
BlendTreatRight ==
  /\ blend_pc = "treat_right"
  /\ right_pixel' = Colorize(composed.right.color)
  /\ pixel_log' = Append(pixel_log, PixelEvent("colorize", "right", composed.right.color))
  /\ blend_pc' = "draw_left"
  /\ UNCHANGED <<operator, operand_a, operand_b, composed, left_pixel, pixel, beside_blend>>

\* composite: Pipeline::new clears the target to clear_color, then the quad
\* is drawn from texture unit 0 under (eq, src_fct, dst_fct).
BlendDrawLeft ==
  /\ blend_pc = "draw_left"
  /\ pixel' = Blend(composed.eq, composed.src_fct, composed.dst_fct,
                    Forward(left_pixel), composed.clear_color)
  /\ pixel_log' = pixel_log \o <<PixelEvent("clear", "target", composed.clear_color),
                                 PixelEvent("draw", 0, left_pixel)>>
  /\ blend_pc' = "draw_right"
  /\ UNCHANGED <<operator, operand_a, operand_b, composed, left_pixel, right_pixel,
                 beside_blend>>

\* Mutant: the second draw samples texture unit 0 again.
BlendDrawRight_Unit0 ==
  /\ blend_pc = "draw_right"
  /\ pixel' = Blend(composed.eq, composed.src_fct, composed.dst_fct,
                    Forward(left_pixel), pixel)
  /\ pixel_log' = Append(pixel_log, PixelEvent("draw", 0, left_pixel))
  /\ blend_pc' = "done"
  /\ UNCHANGED <<operator, operand_a, operand_b, composed, left_pixel, right_pixel,
                 beside_blend>>

\* composite: the quad is drawn from texture unit 1 under the same state.
BlendDrawRight ==
  /\ blend_pc = "draw_right"
  /\ pixel' = Blend(composed.eq, composed.src_fct, composed.dst_fct,
                    Forward(right_pixel), pixel)
  /\ pixel_log' = Append(pixel_log, PixelEvent("draw", 1, right_pixel))
  /\ blend_pc' = "done"
  /\ UNCHANGED <<operator, operand_a, operand_b, composed, left_pixel, right_pixel,
                 beside_blend>>

BlendNext ==
  \/ \E op \in Operators, ca \in Colors, cb \in Colors :
       ComposeNodes(op, ColorNode(ca), ColorNode(cb))
  \/ BlendTreatLeft
  \/ BlendTreatRight
  \/ BlendDrawLeft
  \/ BlendDrawRight

(***************************************************************************)
(* A caller that builds a Timeline of one-cut tracks, then queries it at    *)
(* times of its choice, forwards and backwards, and keeps each outcome.     *)
(***************************************************************************)
ScrubNew == queries = <<>>

\* Two cuts back to back: clip "a" on [0, 1], clip "b" on [1, 2].
ScrubCuts == {CutNew(1, 2, 0, "a"), CutNew(1, 2, 1, "b")}

ScrubOverlaps == {OverlapNew(1, 1, "sum")}

\* timeline.add_track(Track::from(&[cut])), before the first query.
ScrubAddTrack(cut) ==
  /\ queries = <<>>
  /\ play_t = <<>>
  /\ AddTrack(<<cut>>)

\* timeline.add_overlap(overlap), before the first query.
ScrubAddOverlap(overlap) ==
  /\ queries = <<>>
  /\ play_t = <<>>
  /\ AddOverlap(overlap)

\* let outcome = timeline.play(t)
ScrubPlay(t) ==
  /\ play_t = <<>>
  /\ Len(queries) < MaxQueries
  /\ Play(t)

\* The caller takes the value play returned and keeps it with the time it
\* asked for.
ScrubTake ==
  /\ play_t # <<>>
  /\ queries' = Append(queries, [t |-> play_t[1], outcome |-> played])
  /\ play_t' = <<>>
  /\ played' = [tag |-> "NotPlayed"]
  /\ play_trace' = <<>>
  /\ UNCHANGED <<tracks, overlaps, beside_scrub>>

ScrubNext ==
  \/ \E cut \in ScrubCuts : ScrubAddTrack(cut)
  \/ \E overlap \in ScrubOverlaps : ScrubAddOverlap(overlap)
  \/ \E t \in Times : ScrubPlay(t)
  \/ ScrubTake

(***************************************************************************)
(* Timelines of cuts that meet end to start: clip "a" on [0, 1], clip "b"   *)
(* on [1, 2] and a cut of no length at 1, in one Track or in several, with  *)
(* an Overlap over [1, 2], one over the instant 0, both or none.            *)
(***************************************************************************)
AbutCuts == {CutNew(1, 2, 0, "a"), CutNew(1, 2, 1, "b"), CutNew(0, 0, 1, "a")}

AbutOverlaps == {OverlapNew(1, 1, "sum"), OverlapNew(0, 0, "stack")}

AbutNext ==
  \/ \E n \in 0..(MaxCuts - CountCuts(tracks)) : \E track \in [1..n -> AbutCuts] :
       AddTrack(track)
  \/ \E overlap \in AbutOverlaps : AddOverlap(overlap)
  \/ \E t \in Times : Play(t)

(***************************************************************************)
(* The resource cache (resource.rs): get_id on one CacheBlock.  What the    *)
(* disk holds under a path can differ from one call to the next.            *)
(***************************************************************************)
CacheNames == {"cube", "plane", "torus"}

\* What a file that loads can hold.
Contents == {"v1", "v2"}

\* What get_id can find under a path: nothing, a file that does not load, or
\* a file that loads.
Files == {"missing", "broken"} \cup Contents

\* format!("data/{}/{}", stringify!($block), $name)
PathOf(block, name) == <<"data", block, name>>

\* The cache_struct! constructor: every block empty, no sender.
CacheNew ==
  /\ cache_ids = <<>>
  /\ cache_data = <<>>
  /\ cache_senders = {}
  /\ got = <<>>

\* What get_id returned: Some(id) is <<id>>, None is <<>>.
Got(name, file, id, loaded) == [name |-> name, file |-> file, id |-> id, loaded |-> loaded]

\* Mutant: get_id does not look the name up before it loads.
GetId_Uncached(name, file) ==
  LET path == PathOf("models", name)
      id == Len(cache_data)
  IN IF file \in Contents
     THEN /\ cache_senders' = cache_senders \cup {path}
          /\ cache_data' = Append(cache_data, [resource |-> file, path |-> path])
          /\ cache_ids' = [n \in DOMAIN cache_ids \cup {name} |->
                             IF n = name THEN id ELSE cache_ids[n]]
          /\ got' = Got(name, file, <<id>>, TRUE)
          /\ UNCHANGED beside_cache
     ELSE /\ got' = Got(name, file, <<>>, file # "missing")
          /\ UNCHANGED <<cache_ids, cache_data, cache_senders, beside_cache>>

\* Get::get_id, as impl_get_id! writes it for the block `models`.
GetId(name, file) ==
  LET path == PathOf("models", name)
      id == Len(cache_data)
  IN CASE name \in DOMAIN cache_ids ->
            \* cache hit
            /\ got' = Got(name, file, <<cache_ids[name]>>, FALSE)
            /\ UNCHANGED <<cache_ids, cache_data, cache_senders, beside_cache>>
       [] name \notin DOMAIN cache_ids /\ file \in Contents ->
            \* cache miss, the path exists and Load::load returns Ok
            /\ cache_senders' = cache_senders \cup {path}
            /\ cache_data' = Append(cache_data, [resource |-> file, path |-> path])
            /\ cache_ids' = [n \in DOMAIN cache_ids \cup {name} |->
                               IF n = name THEN id ELSE cache_ids[n]]
            /\ got' = Got(name, file, <<id>>, TRUE)
            /\ UNCHANGED beside_cache
       [] OTHER ->
            \* the path does not exist, or it does and Load::load returns Err
            /\ got' = Got(name, file, <<>>, file # "missing")
            /\ UNCHANGED <<cache_ids, cache_data, cache_senders, beside_cache>>

CacheNext == \E name \in CacheNames, file \in Files : GetId(name, file)

(***************************************************************************)
(* Specifications: the compositor and the timeline are separate objects.   *)
(***************************************************************************)
Init == CompositorNew /\ TimelineNew /\ EditNew /\ BlendNew /\ ScrubNew /\ CacheNew

Next == CompositorNext

Spec == Init /\ [][Next]_vars

TimelineSpec == Init /\ [][TimelineNext]_vars

WindowSpec == Init /\ [][WindowNext]_vars

ManifestSpec == Init /\ [][ManifestNext]_vars

BuildSpec == Init /\ [][BuildNext]_vars

BlendSpec == Init /\ [][BlendNext]_vars

ScrubSpec == Init /\ [][ScrubNext]_vars

AbutSpec == Init /\ [][AbutNext]_vars

ShowSpec == Init /\ [][ShowNext]_vars

CacheSpec == Init /\ [][CacheNext]_vars
(***************************************************************************)
(* Properties of the compositor.                                           *)
(***************************************************************************)
Count(seq, x) == Cardinality({k \in 1..Len(seq) : seq[k] = x})

\* display has returned at least once and no call is pending.
Displayed == stack = <<>> /\ root # NoNode /\ ~panicked

\* Pulls less disposes of target i among the first k events of the log.
Balance(i, k) ==
  Cardinality({n \in 1..k : log[n].ev = "pull" /\ log[n].fb = i})
  - Cardinality({n \in 1..k : log[n].ev = "dispose" /\ log[n].fb = i})

\* The targets a pending call holds: those bound to its locals and not yet
\* disposed of or returned.
HeldBy(f) ==
  CASE f.fn = "display" ->
         IF f.pc \in {"blit", "dispose"} THEN <<f.fb_index>> ELSE <<>>
    [] f.fn = "composite" ->
         (IF f.pc \in {"treat_right", "pull", "draw_left", "draw_right", "dispose_left"}
          THEN <<f.left_index>> ELSE <<>>)
         \o (IF f.pc \in {"pull", "draw_left", "draw_right", "dispose_left", "dispose_right"}
             THEN <<f.right_index>> ELSE <<>>)
         \o (IF f.pc \in {"draw_left", "draw_right", "dispose_left", "dispose_right", "return"}
             THEN <<f.fb_index>> ELSE <<>>)
    [] OTHER ->
         IF f.pc \in {"draw", "return"} THEN <<f.fb_index>> ELSE <<>>

RECURSIVE HeldFrom(_)
HeldFrom(k) == IF k = 0 THEN <<>> ELSE HeldFrom(k - 1) \o HeldBy(stack[k])

\* The targets held by all pending calls, outermost call first.
Held == HeldFrom(Len(stack))

\* C1: once display has returned, the set of targets in use is the one it
\* found when it was called, and in the call's log every target alternates
\* between pulled and disposed, ending disposed: each pull of the call,
\* the root's included, is matched by exactly one later dispose.
C1_DisplayRestoresInUse ==
  /\ ~panicked
  /\ \A i \in 0..(framebuffers_len - 1) :
       \A k \in 0..Len(log) : Balance(i, k) \in {0, 1}
  /\ Displayed =>
       /\ InUse = InUseOf(start_free, start_len)
       /\ \A i \in 0..(framebuffers_len - 1) : Balance(i, Len(log)) = 0

\* C1 witness: display has returned from a tree with two composites, called on
\* a pool that earlier calls had filled.
C1_Witness ==
  /\ Displayed
  /\ root \in NodesOfSize(2)
  /\ start_len >= 3
  /\ Len(start_free) = start_len
  /\ Cardinality({n \in 1..Len(log) : log[n].ev = "dispose"}) = 5

\* C2: every allocated target is either held by exactly one pending call or
\* exactly once on the free list, and nothing else is held or free.
C2_HeldXorFree ==
  /\ \A i \in 0..(framebuffers_len - 1) :
       Count(Held, i) + Count(free_framebuffers, i) = 1
  /\ Range(Held) \cup Range(free_framebuffers) \subseteq 0..(framebuffers_len - 1)

\* C2 witness: three calls are pending, two of them hold a target each and a
\* further target is free.
C2_Witness ==
  /\ Len(stack) = 3
  /\ Top.fn = "composite"
  /\ Top.pc = "treat_right"
  /\ stack[2].pc = "treat_right"
  /\ Len(Held) = 2
  /\ free_framebuffers # <<>>

\* C3: a pull that finds the free list non-empty returns an index taken from
\* it and allocates nothing; one that finds it empty appends one target and
\* returns the previous number of targets; a pull right after the disposal of
\* i returns i.
C3_PullReusesBeforeGrowing ==
  /\ \A n \in 1..Len(pool_ops) :
       LET o == pool_ops[n]
       IN o.op = "pull" =>
            IF o.free_before # <<>>
            THEN /\ o.index \in Range(o.free_before)
                 /\ o.len_after = o.len_before
                 /\ Len(o.free_after) = Len(o.free_before) - 1
                 /\ \A i \in Range(o.free_before) :
                      Count(o.free_after, i) =
                        Count(o.free_before, i) - (IF i = o.index THEN 1 ELSE 0)
            ELSE /\ o.len_after = o.len_before + 1
                 /\ o.index = o.len_before
                 /\ o.free_after = <<>>
  /\ (Len(pool_ops) = 2 /\ pool_ops[1].op = "dispose" /\ pool_ops[2].op = "pull")
       => pool_ops[2].index = pool_ops[1].index

\* C3 witness: a pull followed a disposal while another target was free too.
C3_Witness ==
  /\ Len(pool_ops) = 2
  /\ pool_ops[1].op = "dispose"
  /\ pool_ops[2].op = "pull"
  /\ Len(pool_ops[2].free_before) >= 2
  /\ pool_ops[2].index = pool_ops[1].index

\* The path of the Composite above both log events a and b when a lies in
\* its left subtree and b in its right one.
LeftOfRight(a, b) ==
  \E k \in 0..(Len(a.path) - 1) :
    /\ k < Len(b.path)
    /\ SubSeq(a.path, 1, k) = SubSeq(b.path, 1, k)
    /\ a.path[k + 1] = "L"
    /\ b.path[k + 1] = "R"

\* The paths of the Render leaves of a tree, left to right, depth first.
RECURSIVE RenderPaths(_, _)
RenderPaths(node, path) ==
  CASE node.kind = "Composite" ->
         RenderPaths(node.left, Append(path, "L"))
         \o RenderPaths(node.right, Append(path, "R"))
    [] node.kind = "Render" -> <<path>>
    [] OTHER -> <<>>

RECURSIVE CallbackPaths(_)
CallbackPaths(k) ==
  IF k = 0 THEN <<>>
  ELSE IF log[k].ev = "callback" THEN Append(CallbackPaths(k - 1), log[k].path)
  ELSE CallbackPaths(k - 1)

\* The positions in the log of the events of kind ev at path p.
At(ev, p) == {n \in 1..Len(log) : log[n].ev = ev /\ log[n].path = p}

\* C4: every event of a Composite's left subtree precedes every event of its
\* right subtree; in the Composite's own target the draw of unit 0 samples
\* the left result and precedes the draw of unit 1, which samples the right
\* result; the Render callbacks run in left-to-right depth-first order.
C4_LeftBeforeRight ==
  /\ \A a, b \in 1..Len(log) : LeftOfRight(log[a], log[b]) => a < b
  /\ \A n \in 1..Len(log) :
       (log[n].ev = "draw" /\ log[n].arg.program = "compose_program") =>
         /\ log[n].arg.unit = 0 =>
              \E m \in At("pull", Append(log[n].path, "L")) :
                m < n /\ log[m].fb = log[n].arg.source
         /\ log[n].arg.unit = 1 =>
              /\ \E m \in At("pull", Append(log[n].path, "R")) :
                   m < n /\ log[m].fb = log[n].arg.source
              /\ \E m \in At("draw", log[n].path) :
                   m < n /\ log[m].arg.unit = 0 /\ log[m].fb = log[n].fb
  /\ root # NoNode => IsPrefix(CallbackPaths(Len(log)), RenderPaths(root, <<>>))
  /\ Displayed => CallbackPaths(Len(log)) = RenderPaths(root, <<>>)

\* C4 witness: display has returned from (Render + Render) + Render.
C4_Witness ==
  /\ Displayed
  /\ root = NodeAdd(NodeAdd(NodeRender, NodeRender), NodeRender)
  /\ CallbackPaths(Len(log)) = << <<"L", "L">>, <<"L", "R">>, <<"R">> >>

\* C5: the target a Composite pulls for its output differs from both child
\* targets, which differ from each other; both child targets stay off the
\* free list until both draws are done, and both are on it when composite
\* returns.
C5_CompositeTargetsDistinct ==
  \A k \in 1..Len(stack) :
    LET f == stack[k]
    IN f.fn = "composite" =>
         /\ f.pc \in {"pull", "draw_left", "draw_right", "dispose_left", "dispose_right",
                      "return"}
              => f.left_index # f.right_index
         /\ f.pc \in {"draw_left", "draw_right", "dispose_left", "dispose_right", "return"}
              => f.fb_index \notin {f.left_index, f.right_index}
         /\ f.pc \in {"pull", "draw_left", "draw_right", "dispose_left"}
              => {f.left_index, f.right_index} \cap Range(free_framebuffers) = {}
         /\ f.pc = "dispose_left"
              => \E n \in At("draw", f.path) : log[n].arg.unit = 1
         /\ f.pc \in {"draw_left", "draw_right"}
              => At("dispose", f.path) = {}
         /\ f.pc = "dispose_right"
              => /\ f.left_index \in Range(free_framebuffers)
                 /\ f.right_index \notin Range(free_framebuffers)
         /\ f.pc = "return"
              => {f.left_index, f.right_index} \subseteq Range(free_framebuffers)

\* C5 witness: a nested Composite, on a pool filled by earlier calls, has made
\* both draws and is about to release its children.
C5_Witness ==
  /\ Len(stack) >= 3
  /\ Top.fn = "composite"
  /\ Top.pc = "dispose_left"
  /\ start_len >= 3
  /\ Top.fb_index # Top.left_index
  /\ Top.fb_index # Top.right_index

\* C6: no more targets are allocated than were in use at once at some moment
\* so far; a display call of the tree shown just before, or of any tree whose
\* peak of targets in use fits the targets already allocated, allocates none.
C6_AllocationBoundedByPeak ==
  /\ framebuffers_len <= peak_ever
  /\ Displayed =>
       /\ repeated => framebuffers_len = start_len
       /\ call_peak <= start_len => framebuffers_len = start_len

\* C6 witness: a tree with two composites has been displayed twice in a row.
C6_Witness ==
  /\ Displayed
  /\ repeated
  /\ root \in NodesOfSize(2)
  /\ call_peak = 4
  /\ framebuffers_len = 4

DisposeStep == CompositeDisposeLeft \/ CompositeDisposeRight \/ DisplayDispose

\* C7: a dispose step appends the index to the free list and leaves the
\* allocated targets alone; no step ever lowers their number.
C7_DisposeOnlyAppends ==
  [][/\ framebuffers_len' >= framebuffers_len
     /\ DisposeStep =>
          /\ framebuffers_len' = framebuffers_len
          /\ Len(free_framebuffers') = Len(free_framebuffers) + 1
          /\ Front(free_framebuffers') = free_framebuffers
          /\ Last(free_framebuffers') = Last(pool_ops').index]_vars

\* C7 witness: the highest target has just been disposed of.
C7_Witness ==
  /\ pool_ops # <<>>
  /\ Last(pool_ops).op = "dispose"
  /\ framebuffers_len >= 3
  /\ Last(pool_ops).index = framebuffers_len - 1
  /\ Last(free_framebuffers) = framebuffers_len - 1

\* Pulls less disposes of target i among the log events at or below path p.
BalanceBelow(i, p) ==
  Cardinality({n \in 1..Len(log) :
                 log[n].ev = "pull" /\ log[n].fb = i /\ IsPrefix(p, log[n].path)})
  - Cardinality({n \in 1..Len(log) :
                   log[n].ev = "dispose" /\ log[n].fb = i /\ IsPrefix(p, log[n].path)})

\* C8: when a treat_node call is about to return, the targets in use are
\* those in use when it was called plus the one it returns, which was not in
\* use then; every other pull made inside the call is matched by a dispose.
C8_TreatNodeKeepsOnlyItsResult ==
  (stack # <<>> /\ Top.pc = "return") =>
    /\ Top.fb_index \in InUse
    /\ Top.fb_index \notin Top.in_use_at_call
    /\ InUse = Top.in_use_at_call \cup {Top.fb_index}
    /\ \A i \in 0..(framebuffers_len - 1) :
         BalanceBelow(i, Top.path) = (IF i = Top.fb_index THEN 1 ELSE 0)

\* C8 witness: a Composite nested as a right child returns while its parent
\* holds the left result.
C8_Witness ==
  /\ Len(stack) = 3
  /\ Top.pc = "return"
  /\ Top.fn = "composite"
  /\ Top.path = <<"R">>
  /\ Top.in_use_at_call # {}

(***************************************************************************)
(* Properties of the timeline.                                             *)
(***************************************************************************)
HasPlayed == play_t # <<>>

\* The places <<track, cut>> of the cuts whose window holds t, the window
\* written out as [inst_time, inst_time + (out_time - in_time)].
ActiveAt(t) ==
  {p \in (1..Len(tracks)) \X (1..MaxCuts) :
     /\ p[2] <= Len(tracks[p[1]])
     /\ LET cut == tracks[p[1]][p[2]]
        IN /\ cut.inst_time <= t
           /\ t <= cut.inst_time + (cut.out_time - cut.in_time)}

\* The overlaps whose window holds t.
CoveringAt(t) ==
  {k \in 1..Len(overlaps) :
     overlaps[k].inst_time <= t /\ t <= overlaps[k].inst_time + overlaps[k].dur}

\* C9: play(t) returns Inactive exactly when no cut of any track has t in
\* its window, whatever overlaps are declared.
C9_InactiveIffNoActiveCut ==
  HasPlayed => (played = Inactive <=> ActiveAt(play_t[1]) = {})

\* C9 witness: play returned Inactive on a timeline with two cuts in two
\* tracks, neither active at t, and an overlap whose window holds t.
C9_Witness ==
  /\ HasPlayed
  /\ played = Inactive
  /\ Len(tracks) = 2
  /\ Len(tracks[1]) = 1
  /\ Len(tracks[2]) = 1
  /\ CoveringAt(play_t[1]) # {}

\* C10: when exactly one cut is active at t, play(t) returns Resolved with
\* the node that cut's clip generates for the query time t itself.
C10_SingleCutResolvesAtQueryTime ==
  HasPlayed =>
    \A p \in ActiveAt(play_t[1]) :
      ActiveAt(play_t[1]) = {p} =>
        played = Resolved(GenNode(tracks[p[1]][p[2]].clip, play_t[1]))

\* C10 witness: the one active cut is the second of two, its clip differs from
\* the other cut's, and its time within the clip differs from the query time.
C10_Witness ==
  /\ HasPlayed
  /\ played.tag = "Resolved"
  /\ Len(tracks) = 1
  /\ Len(tracks[1]) = 2
  /\ ActiveAt(play_t[1]) = {<<1, 2>>}
  /\ tracks[1][1].clip # tracks[1][2].clip
  /\ tracks[1][2].in_time + (play_t[1] - tracks[1][2].inst_time) # play_t[1]
  /\ tracks[1][2].inst_time # 0
  /\ played.node = GenNode(tracks[1][2].clip, play_t[1])

\* The active places in the order of play's loops: by track, then by cut
\* within the track.
PlaceBefore(p, q) == p[1] < q[1] \/ (p[1] = q[1] /\ p[2] < q[2])

OrderedActiveAt(t) ==
  CHOOSE seq \in [1..Cardinality(ActiveAt(t)) -> ActiveAt(t)] :
    \A i, j \in 1..Cardinality(ActiveAt(t)) : i < j => PlaceBefore(seq[i], seq[j])

\* The first overlap, in declaration order, whose window holds t.
FirstCoveringAt(t) ==
  CHOOSE k \in CoveringAt(t) : \A m \in CoveringAt(t) : k <= m

\* C11: play(t) returns NoOverlap exactly when two or more cuts, counted over
\* all tracks, are active at t and no declared overlap has t in its window;
\* whatever the timeline, play returns one of the three Played values.
C11_NoOverlapIffUncovered ==
  HasPlayed =>
    /\ played.tag \in {"Resolved", "NoOverlap", "Inactive"}
    /\ played = NoOverlap <=>
         (Cardinality(ActiveAt(play_t[1])) >= 2 /\ CoveringAt(play_t[1]) = {})

\* C11 witness: play returned NoOverlap for two active cuts of one track while
\* an overlap is declared whose window does not hold t.
C11_Witness ==
  /\ HasPlayed
  /\ played = NoOverlap
  /\ Len(tracks) = 1
  /\ ActiveAt(play_t[1]) = {<<1, 1>>, <<1, 2>>}
  /\ overlaps # <<>>
  /\ CoveringAt(play_t[1]) = {}

\* C12: when two or more cuts are active at t and some overlap window holds
\* t, play(t) returns Resolved with the fold of the first such overlap in
\* declaration order, applied to the nodes of all the active cuts, each
\* generated for t, ordered by track and then by cut within the track.
C12_FirstOverlapFoldsAllActive ==
  (HasPlayed /\ Cardinality(ActiveAt(play_t[1])) >= 2 /\ CoveringAt(play_t[1]) # {}) =>
    LET t == play_t[1]
        places == OrderedActiveAt(t)
        nodes == [k \in 1..Len(places) |->
                    GenNode(tracks[places[k][1]][places[k][2]].clip, t)]
    IN /\ played = Resolved(ApplyFold(overlaps[FirstCoveringAt(t)].fold, nodes))
       /\ Last(play_trace).call = "fold"
       /\ Last(play_trace).cut = FirstCoveringAt(t)
       /\ Last(play_trace).arg = nodes

\* C12 witness: two overlaps with different folds both hold t, the second
\* declared being the first in time, and the two active cuts, in two tracks,
\* have different clips.
C12_Witness ==
  /\ HasPlayed
  /\ played.tag = "Resolved"
  /\ Len(tracks) = 2
  /\ ActiveAt(play_t[1]) = {<<1, 1>>, <<2, 1>>}
  /\ tracks[1][1].clip # tracks[2][1].clip
  /\ CoveringAt(play_t[1]) = {1, 2}
  /\ overlaps[2].inst_time < overlaps[1].inst_time
  /\ played.node = ApplyFold(overlaps[1].fold,
                             <<GenNode(tracks[1][1].clip, play_t[1]),
                               GenNode(tracks[2][1].clip, play_t[1])>>)
  /\ played.node # ApplyFold(overlaps[2].fold,
                             <<GenNode(tracks[1][1].clip, play_t[1]),
                               GenNode(tracks[2][1].clip, play_t[1])>>)
  /\ played.node # ApplyFold(overlaps[1].fold,
                             <<GenNode(tracks[2][1].clip, play_t[1]),
                               GenNode(tracks[1][1].clip, play_t[1])>>)

\* A timeline of the single cut `cut` has been played.
PlayedOne(cut) == HasPlayed /\ tracks = << <<cut>> >>

\* C13: the window of a single cut is the closed interval from inst_time to
\* inst_time + (out_time - in_time): play resolves at both ends and is
\* Inactive one tick outside them; a cut with the same difference of
\* out_time and in_time plays the same; the cut (in 0, out 2, inst 5) is
\* Inactive at 4.9, Resolved at 5.0 and 7.0, Inactive at 7.1; an empty cut
\* is active at inst_time only.
C13_WindowClosedInterval ==
  /\ \A cut \in WindowCuts :
       PlayedOne(cut) =>
         LET t == play_t[1]
             d == cut.out_time - cut.in_time
         IN /\ played.tag \in {"Resolved", "Inactive"}
            /\ played.tag = "Resolved" <=> (cut.inst_time <= t /\ t <= cut.inst_time + d)
            /\ t \in {cut.inst_time, cut.inst_time + d} => played.tag = "Resolved"
            /\ t \in {cut.inst_time - 1, cut.inst_time + d + 1} => played = Inactive
            /\ d = 0 => (played.tag = "Resolved" <=> t = cut.inst_time)
            /\ \A s \in WindowSlices :
                 s[2] - s[1] = d =>
                   PlayResult(<< <<CutNew(s[1], s[2], cut.inst_time, cut.clip)>> >>,
                              overlaps, t) = played
  /\ \A c \in Clips :
       PlayedOne(CutNew(0, 20, 50, c)) =>
         /\ play_t[1] = 49 => played = Inactive
         /\ play_t[1] = 50 => played = Resolved(GenNode(c, 50))
         /\ play_t[1] = 70 => played = Resolved(GenNode(c, 70))
         /\ play_t[1] = 71 => played = Inactive

\* C13 witness: a cut whose slice starts after 0 resolves at the last tick of
\* its window.
C13_Witness ==
  /\ PlayedOne(CutNew(10, 30, 50, "b"))
  /\ play_t[1] = 70
  /\ played = Resolved(GenNode("b", 70))

(***************************************************************************)
(* Properties of manifests and of the builders.                            *)
(***************************************************************************)
\* The cuts of a track manifest whose clip name the mapping knows, in
\* manifest order, each with the clip the mapping gives its name.
KeptCuts(track_manifest, mapping) ==
  LET Known(cut_manifest) == cut_manifest.clip \in DOMAIN mapping
      kept == SelectSeq(track_manifest, Known)
  IN [j \in 1..Len(kept) |->
        [in_time |-> kept[j].in_time, out_time |-> kept[j].out_time,
         inst_time |-> kept[j].inst_time, clip |-> mapping[kept[j].clip]]]

\* Some cut of the manifest names a clip the mapping does not know.
NamesMissingClip(manifest, mapping) ==
  \E i \in 1..Len(manifest) : \E j \in 1..Len(manifest[i]) :
    manifest[i][j].clip \notin DOMAIN mapping

\* Every cut of the manifest whose clip name the mapping knows has its
\* in_time at or before its out_time.
KnownCutsOrdered(manifest, mapping) ==
  \A i \in 1..Len(manifest) : \A j \in 1..Len(manifest[i]) :
    manifest[i][j].clip \in DOMAIN mapping
      => manifest[i][j].in_time <= manifest[i][j].out_time

\* from_manifest returned a Timeline of one Track per manifest track, in
\* manifest order, each holding the known cuts of its manifest track in
\* manifest order and nothing else.
LoadedAllKnown(manifest, mapping) ==
  /\ ~edit_panicked
  /\ Len(tracks) = Len(manifest)
  /\ \A i \in 1..Len(manifest) : tracks[i] = KeptCuts(manifest[i], mapping)

\* C14 as stated: for any manifest in which some cut names a clip absent
\* from the mapping, from_manifest completes without panicking, omits that
\* cut, keeps every known cut in manifest order and yields one Track per
\* manifest track.
C14_AsStated ==
  manifest_call # <<>> =>
    LET manifest == manifest_call[1].manifest
        mapping == manifest_call[1].mapping
    IN NamesMissingClip(manifest, mapping) => LoadedAllKnown(manifest, mapping)

\* C14, amended: the same for any such manifest whose cuts with a known
\* clip name all have in_time <= out_time; a cut with an unknown clip name
\* may have its times in any order.
C14_MissingClipOmitted ==
  manifest_call # <<>> =>
    LET manifest == manifest_call[1].manifest
        mapping == manifest_call[1].mapping
    IN (NamesMissingClip(manifest, mapping) /\ KnownCutsOrdered(manifest, mapping))
         => LoadedAllKnown(manifest, mapping)

\* C14 witness: of two tracks the first lost its only cut, whose name is
\* unknown and whose times are out of order, and is kept empty; the second
\* kept its cut.
C14_Witness ==
  /\ manifest_call # <<>>
  /\ ~edit_panicked
  /\ Len(manifest_call[1].manifest) = 2
  /\ Len(manifest_call[1].manifest[1]) = 1
  /\ manifest_call[1].manifest[1][1].clip \notin DOMAIN manifest_call[1].mapping
  /\ manifest_call[1].manifest[1][1].in_time > manifest_call[1].manifest[1][1].out_time
  /\ Len(tracks) = 2
  /\ tracks[1] = <<>>
  /\ Len(tracks[2]) = 1
  /\ warnings = <<manifest_call[1].manifest[1][1].clip>>

\* Every cut of the Timeline and of the caller's Track has its in_time at or
\* before its out_time.
CutsOrdered ==
  /\ \A i \in 1..Len(tracks) : \A j \in 1..Len(tracks[i]) :
       tracks[i][j].in_time <= tracks[i][j].out_time
  /\ \A j \in 1..Len(draft) : draft[j].in_time <= draft[j].out_time

\* The step panicked and built nothing: the Timeline and the caller's Track
\* are as before.
Rejected == edit_panicked' /\ tracks' = tracks /\ draft' = draft

Draws == SelectSeq(pixel_log, LAMBDA e : e.ev = "draw")

\* The leaf evaluations so far, in order.
Colorized == SelectSeq(pixel_log, LAMBDA e : e.ev = "colorize")

\* C16: A.over(B) builds Composite(B, A, (0,0,0,0), Additive, SrcAlpha,
\* SrcAlphaComplement): B is the left child, evaluated first and drawn first
\* from unit 0, A the right child, evaluated second and drawn second from
\* unit 1.
C16_OverSwapsOperands ==
  operator = "over" =>
    /\ composed = [kind |-> "Composite", left |-> operand_b, right |-> operand_a,
                   clear_color |-> <<0, 0, 0, 0>>, eq |-> "Additive",
                   src_fct |-> "SrcAlpha", dst_fct |-> "SrcAlphaComplement"]
    /\ Len(Colorized) >= 1 => Colorized[1].source = operand_b.color
    /\ Len(Colorized) >= 2 => Colorized[2].source = operand_a.color
    /\ Len(Draws) >= 1 => Draws[1] = PixelEvent("draw", 0, operand_b.color)
    /\ Len(Draws) >= 2 => Draws[2] = PixelEvent("draw", 1, operand_a.color)
    /\ blend_pc = "done" => Len(Draws) = 2 /\ Len(Colorized) = 2

\* C16 witness: A.over(B) has been evaluated for colors A and B that differ
\* in every way.
C16_Witness ==
  /\ operator = "over"
  /\ blend_pc = "done"
  /\ operand_a.color = <<2, 1, 0, 1>>
  /\ operand_b.color = <<1, 0, 1, 2>>
  /\ composed.left = operand_b
  /\ Draws[2].source = <<2, 1, 0, 1>>

\* C17: A + B, A - B and A * B each build a Composite of left A and right B
\* with, in turn, ((0,0,0,0), Additive, One, One), ((0,0,0,0), Subtract,
\* One, One) and ((1,1,1,1), Additive, Zero, SrcColor).
C17_OperatorsKeepOrder ==
  /\ operator = "+" =>
       composed = [kind |-> "Composite", left |-> operand_a, right |-> operand_b,
                   clear_color |-> <<0, 0, 0, 0>>, eq |-> "Additive",
                   src_fct |-> "One", dst_fct |-> "One"]
  /\ operator = "-" =>
       composed = [kind |-> "Composite", left |-> operand_a, right |-> operand_b,
                   clear_color |-> <<0, 0, 0, 0>>, eq |-> "Subtract",
                   src_fct |-> "One", dst_fct |-> "One"]
  /\ operator = "*" =>
       composed = [kind |-> "Composite", left |-> operand_a, right |-> operand_b,
                   clear_color |-> <<1, 1, 1, 1>>, eq |-> "Additive",
                   src_fct |-> "Zero", dst_fct |-> "SrcColor"]
  /\ operator \in {"+", "-", "*"} =>
       /\ Len(Draws) >= 1 => Draws[1] = PixelEvent("draw", 0, operand_a.color)
       /\ Len(Draws) >= 2 => Draws[2] = PixelEvent("draw", 1, operand_b.color)

\* C17 witness: A - B has been built and evaluated for different A and B.
C17_Witness ==
  /\ operator = "-"
  /\ blend_pc = "done"
  /\ operand_a # operand_b
  /\ composed.left = operand_a
  /\ composed.right = operand_b
  /\ composed.eq = "Subtract"

\* composite has made both draws of `A op B`.
Blended(op) == operator = op /\ blend_pc = "done"

\* C18 as stated: when A's alpha is 0, whatever B's alpha, the pixel of
\* A.over(B) after the clear and the two blended draws is B's color in every
\* component.
C18_TransparentRevealsBackground ==
  (Blended("over") /\ operand_a.color[4] = 0) => pixel = operand_b.color

\* C19: when A's alpha is 1, whatever B, the pixel of A.over(B) after the
\* clear and the two blended draws is A's color in every component.
C19_OpaqueOccludesBackground ==
  (Blended("over") /\ operand_a.color[4] = 1) => pixel = operand_a.color

\* C19 witness: an opaque A over a B of another color whose alpha is not 1.
C19_Witness ==
  /\ Blended("over")
  /\ operand_a.color = <<2, 0, 1, 1>>
  /\ operand_b.color = <<1, 1, 0, 2>>
  /\ pixel = <<2, 0, 1, 1>>

\* C20: the pixel of A * B, cleared to (1,1,1,1) and drawn under Additive /
\* Zero / SrcColor, is the component-wise product of the two colors; the
\* pixel of A + B, cleared to (0,0,0,0) and drawn under Additive / One / One,
\* is their component-wise sum.
C20_ProductAndSum ==
  /\ Blended("*") =>
       /\ pixel = [c \in 1..4 |-> operand_a.color[c] * operand_b.color[c]]
       /\ pixel_log[3] = PixelEvent("clear", "target", <<1, 1, 1, 1>>)
  /\ Blended("+") =>
       /\ pixel = [c \in 1..4 |-> operand_a.color[c] + operand_b.color[c]]
       /\ pixel_log[3] = PixelEvent("clear", "target", <<0, 0, 0, 0>>)

\* C20 witness: a product whose components differ from both factors and
\* from their sum.
C20_Witness ==
  /\ Blended("*")
  /\ operand_a.color = <<2, 1, 0, 2>>
  /\ operand_b.color = <<2, 0, 1, 1>>
  /\ pixel = <<4, 0, 0, 2>>

(***************************************************************************)
(* C21: play leaves the Timeline's tracks, cuts and overlaps as they were,  *)
(* and its outcome depends on the time asked and on the Timeline only: a    *)
(* caller that asks the same time twice gets the same outcome both times,   *)
(* whatever times it asked in between and in whatever order.                *)
(***************************************************************************)
SameTimeSameOutcome(qs) ==
  \A i, j \in 1..Len(qs) : qs[i].t = qs[j].t => qs[i].outcome = qs[j].outcome

C21_PlayIsPure ==
  [][/\ (play_t = <<>> /\ play_t' # <<>>) => (tracks' = tracks /\ overlaps' = overlaps)
     /\ SameTimeSameOutcome(queries')]_vars

\* The caller asked time 1, where two cuts are folded, then an earlier time,
\* then time 1 again.
C21_Witness ==
  /\ Len(queries) = 3
  /\ queries[1].t = queries[3].t
  /\ queries[2].t < queries[1].t
  /\ queries[1].outcome.tag = "Resolved"
  /\ queries[1].outcome.node.kind = "Composite"
  /\ queries[2].outcome.tag = "Resolved"
  /\ queries[3].outcome = queries[1].outcome
  /\ overlaps # <<>>

(***************************************************************************)
(* C22: in the evaluation of a Composite the left child's image is drawn    *)
(* into the composite's target unblended, and only the right child's draw   *)
(* is combined through the blend equation and factors.                      *)
(***************************************************************************)
ComposeDraws == {n \in 1..Len(log) : log[n].ev = "draw" /\ log[n].arg.program = "compose_program"}

C22_LeftDrawnUnblended ==
  \A n \in ComposeDraws :
    /\ log[n].arg.unit = 0 => log[n].arg.blend = <<>>
    /\ log[n].arg.unit = 1 => log[n].arg.blend # <<>>

(***************************************************************************)
(* C23: the evaluation of a leaf (Render, Texture, Color, FullscreenEffect) *)
(* acquires exactly one target, releases none and returns the index it      *)
(* acquired; Render calls its callback exactly once, on that target; Color  *)
(* clears the target to its rgba and draws nothing; Texture and             *)
(* FullscreenEffect each draw exactly one full-screen quad.                 *)
(***************************************************************************)
IsLeaf(node) == node.kind \in {"Render", "Texture", "Color", "FullscreenEffect"}

\* The index the one pull logged at path p gave.
PulledAt(p) == log[CHOOSE n \in At("pull", p) : TRUE].fb

\* A leaf function about to return.
LeafDone(f) ==
  /\ Cardinality(At("pull", f.path)) = 1
  /\ At("dispose", f.path) = {}
  /\ f.fb_index = PulledAt(f.path)
  /\ f.fb_index \notin Range(free_framebuffers)
  /\ Cardinality(At("callback", f.path)) = (IF f.fn = "render" THEN 1 ELSE 0)
  /\ Cardinality(At("draw", f.path)) =
       (IF f.fn \in {"texturize", "fullscreen_effect"} THEN 1 ELSE 0)
  /\ \A n \in At("callback", f.path) \cup At("draw", f.path) \cup At("clear", f.path) :
       log[n].fb = f.fb_index
  /\ \A n \in At("callback", f.path) : log[n].arg = f.node.layer
  /\ f.fn = "colorize" =>
       /\ Cardinality(At("clear", f.path)) = 1
       /\ \A n \in At("clear", f.path) : log[n].arg = f.node.color

\* The index a caller bound for a leaf child is the one the leaf pulled.
LeafReturned(f) ==
  /\ (f.fn = "composite" /\ f.left_index # NoIndex /\ IsLeaf(f.node.left)) =>
       f.left_index = PulledAt(Append(f.path, "L"))
  /\ (f.fn = "composite" /\ f.right_index # NoIndex /\ IsLeaf(f.node.right)) =>
       f.right_index = PulledAt(Append(f.path, "R"))
  /\ (f.fn = "display" /\ f.pc = "blit" /\ IsLeaf(f.node)) =>
       f.fb_index = PulledAt(f.path)

C23_LeafTakesOneTarget ==
  ~panicked =>
    \A k \in 1..Len(stack) :
      /\ (stack[k].fn \in LeafFns /\ stack[k].pc = "return") => LeafDone(stack[k])
      /\ LeafReturned(stack[k])

\* A Composite of a Render and a Color has evaluated both leaves: the callback
\* ran once, the Color's target was cleared and not drawn to, and each leaf
\* returned the index it pulled, both still in use.
C23_Witness ==
  /\ Running
  /\ Top.fn = "composite"
  /\ Top.pc = "pull"
  /\ Top.node.left.kind = "Render"
  /\ Top.node.right.kind = "Color"
  /\ Cardinality(At("callback", Append(Top.path, "L"))) = 1
  /\ Cardinality(At("clear", Append(Top.path, "R"))) = 1
  /\ Top.left_index = PulledAt(Append(Top.path, "L"))
  /\ Top.right_index = PulledAt(Append(Top.path, "R"))
  /\ {Top.left_index, Top.right_index} \cap Range(free_framebuffers) = {}

(***************************************************************************)
(* C24: display evaluates the whole tree, then blits the root's target to   *)
(* the screen with no blend state, then releases the root's target: the     *)
(* target is in use during the blit and is the last index the call pushes   *)
(* on the free list.                                                        *)
(***************************************************************************)
RECURSIVE NodeCount(_)
NodeCount(node) ==
  IF node.kind = "Composite" THEN 1 + NodeCount(node.left) + NodeCount(node.right) ELSE 1

\* The event's target is the default framebuffer, not a target of the pool.
OnScreen(e) == ToString(e.fb) = ToString("screen")

\* The events of node evaluation: all but the clear of the screen, the blit
\* and the dispose that follows them.
TreeEvents(n) ==
  /\ log[n].ev # "blit"
  /\ ~OnScreen(log[n])

\* The log of display once the blit is done: every node has pulled its
\* target, then the screen is cleared, then the root's target is blitted.
BlitAfterTree(last) ==
  /\ last >= 3
  /\ \A n \in 1..(last - 2) : TreeEvents(n)
  /\ Cardinality({n \in 1..(last - 2) : log[n].ev = "pull"}) = NodeCount(root)
  /\ log[last - 1].ev = "clear"
  /\ OnScreen(log[last - 1])
  /\ log[last - 1].arg = RGBA(0, 0, 0, 1)
  /\ log[last].ev = "blit"
  /\ OnScreen(log[last])
  /\ log[last].arg.blend = <<>>
  /\ log[last].arg.unit = 0
  /\ log[last].arg.source = PulledAt(<<>>)

C24_BlitThenRelease ==
  /\ (Running /\ Top.fn = "display" /\ Top.pc = "blit") =>
       /\ Top.fb_index = PulledAt(<<>>)
       /\ Top.fb_index \notin Range(free_framebuffers)
       /\ \A n \in 1..Len(log) : TreeEvents(n)
  /\ (Running /\ Top.fn = "display" /\ Top.pc = "dispose") =>
       /\ BlitAfterTree(Len(log))
       /\ Top.fb_index \notin Range(free_framebuffers)
  /\ Displayed =>
       /\ BlitAfterTree(Len(log) - 1)
       /\ log[Len(log)].ev = "dispose"
       /\ log[Len(log)].path = <<>>
       /\ log[Len(log)].fb = PulledAt(<<>>)
       /\ free_framebuffers # <<>>
       /\ Last(free_framebuffers) = PulledAt(<<>>)

\* A display of a tree with a Composite has returned: the tree's targets were
\* released before the blit and the root's target after it.
C24_Witness ==
  /\ Displayed
  /\ root.kind = "Composite"
  /\ log[Len(log) - 1].ev = "blit"
  /\ Last(free_framebuffers) = log[Len(log) - 1].arg.source
  /\ Len(free_framebuffers) = 3

(***************************************************************************)
(* C26: on a new Compositor display(tree) allocates exactly need(tree)      *)
(* targets, where need(leaf) = 1 and need(Composite(l, r)) =                *)
(* max(need(l), 1 + need(r), 3): a left-nested chain of any length          *)
(* allocates 3 targets, a right-nested chain of d Composites d + 2.         *)
(***************************************************************************)
RECURSIVE Need(_)
Need(node) ==
  IF node.kind = "Composite"
  THEN Max(Max(Need(node.left), 1 + Need(node.right)), 3)
  ELSE 1

\* The Composite nodes on the path from the root that always goes left
\* (side = "left") or always right, when every other child is a leaf; 0 when
\* one is not.
RECURSIVE ChainLength(_, _)
ChainLength(node, side) ==
  IF node.kind # "Composite" THEN 0
  ELSE LET along == IF side = "left" THEN node.left ELSE node.right
           other == IF side = "left" THEN node.right ELSE node.left
       IN IF other.kind = "Composite" \/ (along.kind = "Composite" /\ ChainLength(along, side) = 0)
          THEN 0
          ELSE 1 + ChainLength(along, side)

\* The first display of a Compositor has returned.
FirstDisplayed == Displayed /\ start_len = 0

C26_AllocatesNeed ==
  FirstDisplayed =>
    /\ framebuffers_len = Need(root)
    /\ ChainLength(root, "left") >= 1 => framebuffers_len = 3
    /\ ChainLength(root, "right") >= 1 => framebuffers_len = ChainLength(root, "right") + 2

\* A right-nested chain of MaxComposites Composites was displayed first and
\* took one target more than a left-nested chain does.
C26_Witness ==
  /\ FirstDisplayed
  /\ ChainLength(root, "right") = MaxComposites
  /\ framebuffers_len = MaxComposites + 2
  /\ framebuffers_len > 3

(***************************************************************************)
(* C27: every index pull_framebuffer or treat_node returns, and every index *)
(* on the free list, is below the number of targets allocated, in every     *)
(* reachable state: the two assert!s of composite never fail and no         *)
(* indexing of framebuffers is out of bounds.                               *)
(***************************************************************************)
Allocated(i) == 0 <= i /\ i < framebuffers_len

BoundOrAllocated(i) == i = NoIndex \/ Allocated(i)

C27_IndicesAllocated ==
  /\ ~panicked
  /\ \A k \in 1..Len(free_framebuffers) : Allocated(free_framebuffers[k])
  /\ \A k \in 1..Len(stack) :
       /\ BoundOrAllocated(stack[k].fb_index)
       /\ BoundOrAllocated(stack[k].left_index)
       /\ BoundOrAllocated(stack[k].right_index)
  /\ \A n \in 1..Len(log) : log[n].ev = "pull" => Allocated(log[n].fb)

\* composite stands at its two assert!s with the newest target as its right
\* index, a nested Composite below it having returned and freed two targets.
C27_Witness ==
  /\ Running
  /\ Top.fn = "composite"
  /\ Top.pc = "pull"
  /\ Top.left_index # NoIndex
  /\ Top.right_index = framebuffers_len - 1
  /\ Top.node.right.kind = "Composite"
  /\ Len(free_framebuffers) = 2

(***************************************************************************)
(* C25: the resource cache is idempotent by key.  After a get_id(name) that *)
(* succeeded, every later get_id(name) returns the same id, loads nothing   *)
(* and adds no data slot; a get_id whose load fails (the path is missing or *)
(* loading returns an error) stores nothing under the key and returns None. *)
(***************************************************************************)
\* The step is a get_id(name) call that found `file` under the name's path.
GetIdStep(name, file) == got' # <<>> /\ got'.name = name /\ got'.file = file

C25_GetIdIdempotent ==
  [][\A name \in CacheNames, file \in Files :
       GetIdStep(name, file) =>
         \* ids are never rebound, and every id names a data slot
         /\ \A n \in DOMAIN cache_ids :
              n \in DOMAIN cache_ids' /\ cache_ids'[n] = cache_ids[n]
         /\ \A n \in DOMAIN cache_ids' : cache_ids'[n] < Len(cache_data')
         \* a name that was loaded before
         /\ name \in DOMAIN cache_ids =>
              /\ got'.id = <<cache_ids[name]>>
              /\ ~got'.loaded
              /\ cache_data' = cache_data
              /\ cache_ids' = cache_ids
         \* a first load that succeeds returns the id it stores
         /\ (name \notin DOMAIN cache_ids /\ file \in Contents) =>
              /\ name \in DOMAIN cache_ids'
              /\ got'.id = <<cache_ids'[name]>>
              /\ Len(cache_data') = Len(cache_data) + 1
         \* a load that fails
         /\ (name \notin DOMAIN cache_ids /\ file \notin Contents) =>
              /\ got'.id = <<>>
              /\ cache_ids' = cache_ids
              /\ cache_data' = cache_data
              /\ cache_senders' = cache_senders]_vars

\* A second resource was loaded after "cube", then get_id("cube") was called
\* again while its file was gone: it returned the first id, 0, without
\* loading.
C25_Witness ==
  /\ got # <<>>
  /\ got.name = "cube"
  /\ got.file = "missing"
  /\ got.id = <<0>>
  /\ ~got.loaded
  /\ Len(cache_data) = 2
  /\ cache_data[1].path = PathOf("models", "cube")

(***************************************************************************)
(* C28: when exactly one Cut is active the Overlaps are not consulted: even *)
(* if the window of an Overlap holds t its fold is not called, and play     *)
(* returns the Cut's Node as generated; a fold is called only when two or   *)
(* more Cuts are active.                                                    *)
(***************************************************************************)
Calls(name) == {n \in 1..Len(play_trace) : play_trace[n].call = name}

CutAt(p) == tracks[p[1]][p[2]]

C28_OneCutNeedsNoOverlap ==
  HasPlayed =>
    LET t == play_t[1]
    IN /\ Cardinality(ActiveAt(t)) = 1 =>
            /\ Calls("find_overlap") = {}
            /\ Calls("fold") = {}
            /\ \A p \in ActiveAt(t) : played = Resolved(GenNode(CutAt(p).clip, t))
       /\ Calls("fold") # {} => Cardinality(ActiveAt(t)) >= 2

\* One cut is active at a time that an Overlap covers: play returned the
\* cut's node after a single closure call.
C28_Witness ==
  /\ HasPlayed
  /\ Cardinality(ActiveAt(play_t[1])) = 1
  /\ CoveringAt(play_t[1]) # {}
  /\ CountCuts(tracks) = 2
  /\ played.tag = "Resolved"
  /\ played.node.kind # "Composite"
  /\ Len(play_trace) = 1

(***************************************************************************)
(* C29: two Cuts back to back (the first's inst_time + duration is the      *)
(* second's inst_time), in one Track or in two, are both active at the      *)
(* instant they share: with no Overlap covering it play returns NoOverlap,  *)
(* while at every other instant of either window exactly one of them is     *)
(* active and play returns Resolved.                                        *)
(***************************************************************************)
Places == {p \in (1..Len(tracks)) \X (1..MaxCuts) : p[2] <= Len(tracks[p[1]])}

EndOf(cut) == cut.inst_time + (cut.out_time - cut.in_time)

InWindow(cut, t) == cut.inst_time <= t /\ t <= EndOf(cut)

\* The Timeline holds the two cuts at p and q and no other, and the cut at q
\* starts where the cut at p ends.
BackToBack(p, q) ==
  /\ p # q
  /\ CountCuts(tracks) = 2
  /\ EndOf(CutAt(p)) = CutAt(q).inst_time

C29_SharedInstantNeedsOverlap ==
  HasPlayed =>
    \A p, q \in Places :
      BackToBack(p, q) =>
        LET t == play_t[1]
            first == CutAt(p)
            second == CutAt(q)
        IN /\ (t = second.inst_time /\ CoveringAt(t) = {}) => played = NoOverlap
           /\ (t # second.inst_time /\ InWindow(first, t)) =>
                ~InWindow(second, t) /\ played = Resolved(GenNode(first.clip, t))
           /\ (t # second.inst_time /\ InWindow(second, t)) =>
                ~InWindow(first, t) /\ played = Resolved(GenNode(second.clip, t))

\* Two cuts of one Track, on [0, 1] and on [1, 2], played at 1 with no
\* Overlap over it.
C29_Witness ==
  /\ HasPlayed
  /\ play_t[1] = 1
  /\ Len(tracks) = 1
  /\ Len(tracks[1]) = 2
  /\ BackToBack(<<1, 1>>, <<1, 2>>)
  /\ tracks[1][1].inst_time = 0
  /\ CoveringAt(1) = {}
  /\ played = NoOverlap

(***************************************************************************)
(* C30: play(t) calls the generator of the Clip exactly once for each       *)
(* active Cut, in Track order and then Cut order, never for a Cut that is   *)
(* not active, and before it looks for an Overlap: the generators are       *)
(* called also when the outcome is NoOverlap.                               *)
(***************************************************************************)
GenCall(p, t) == [call |-> "gen_node", track |-> p[1], cut |-> p[2], arg |-> t]

C30_GeneratorsBeforeOverlap ==
  HasPlayed =>
    LET t == play_t[1]
        order == OrderedActiveAt(t)
        n == Cardinality(ActiveAt(t))
    IN /\ Cardinality(Calls("gen_node")) = n
       /\ Len(play_trace) >= n
       /\ \A i \in 1..n : play_trace[i] = GenCall(order[i], t)
       /\ \A i \in Calls("find_overlap") : i = n + 1
       /\ played = NoOverlap => (n >= 2 /\ Calls("find_overlap") = {n + 1})

\* Two tracks, a cut of each active, no Overlap over the time asked: the
\* generators of both ran, first track first, then find_overlap found none.
C30_Witness ==
  /\ HasPlayed
  /\ played = NoOverlap
  /\ Len(tracks) = 2
  /\ Len(play_trace) = 3
  /\ play_trace[1] = GenCall(<<1, 1>>, play_t[1])
  /\ play_trace[2] = GenCall(<<2, 1>>, play_t[1])
  /\ play_trace[3].call = "find_overlap"
  /\ overlaps # <<>>

(***************************************************************************)
(* C31: a Timeline built by from_manifest holds no Overlap: until           *)
(* add_overlap is called, play(t) on it returns NoOverlap at every t where  *)
(* two or more of its Cuts are active, and Resolved only where exactly one  *)
(* Cut is active.                                                           *)
(***************************************************************************)
\* The step is a from_manifest call that returned a Timeline.
LoadStep == manifest_call = <<>> /\ manifest_call' # <<>> /\ ~edit_panicked'

\* The step is a play call.
PlayStep == play_t' # <<>>

C31_ManifestDeclaresNoOverlap ==
  [][/\ LoadStep => overlaps' = <<>>
     /\ PlayStep =>
          /\ overlaps' = overlaps
          /\ (manifest_call # <<>> /\ overlaps = <<>>) =>
               LET n == Cardinality(ActiveAt(play_t'[1]))
               IN /\ n >= 2 => played' = NoOverlap
                  /\ played'.tag = "Resolved" => n = 1]_vars

\* The two cuts of a loaded track meet at 1: played there, before any
\* add_overlap, the Timeline has no Overlap to fold them with.
C31_Witness ==
  /\ manifest_call # <<>>
  /\ ~edit_panicked
  /\ overlaps = <<>>
  /\ HasPlayed
  /\ Len(tracks) = 1
  /\ Cardinality(ActiveAt(play_t[1])) = 2
  /\ played = NoOverlap

====
